---------------------------- MODULE Spec2Model ----------------------------
(***************************************************************************)
(* A model of the oxidui_style crate (TermOxide): the value types, the     *)
(* Style aggregate with its cascade merge, the hex colour decoder and the  *)
(* literal-prefixed integer parser.                                        *)
(***************************************************************************)
EXTENDS Integers, Sequences, FiniteSets, TLC

VARIABLES
    declared,   \* the properties the producer declares in this run
    base,       \* the Style being resolved (`self` of merge)
    overlay,    \* the Style layered on top (`other` of merge)
    pre,        \* ghost: base as it was before the last merge
    layers,     \* ghost: S0 followed by every overlay merged so far
    merged,     \* Option<Style>: the value the last merged_with returned
    op,         \* the last Style operation
    hexIn,      \* the byte sequence handed to Color::from_hex_bytes
    hexEdits,   \* ghost: how many bytes of hexIn were edited
    hexOut,     \* the outcome of Color::from_hex_bytes(hexIn)
    intIn,      \* the string handed to Int::from_str, as characters
    intTokens,  \* ghost: how many tokens intIn was written from
    intOut,     \* the outcome of Int::from_str(intIn)
    radixIn,    \* the string handed to Int::from_str_radix, as characters
    radixArg,   \* the radix handed to Int::from_str_radix
    radixTokens, \* ghost: how many tokens radixIn was written from
    radixOut,   \* the outcome of Int::from_str_radix(radixIn, radixArg)
    arithA,     \* Int: the left (or only) operand of +, - and unary -
    arithB,     \* Int: the right operand
    arithOp,    \* the operator last applied
    arithOut,   \* the outcome of the operator
    floatA,     \* Float: the left operand of ==, hash and partial_cmp
    floatB,     \* Float: the right operand
    floatEqOut, \* the outcome of floatA == floatB
    floatHashOut, \* the outcome of hashing floatA and floatB
    floatCmpOut, \* the outcome of floatA.partial_cmp(&floatB)
    unitA,      \* Unit: the value observed, and the left operand of ==
    unitB,      \* Unit: the right operand of ==
    unitSrc,    \* how unitA was made: "given" or by Unit::default()
    unitEdges,  \* Option<Edges<Unit>>: the value Edges::default() returned
    unitObs,    \* the outcome of the predicates and extractors on both
    fontA,      \* FontStyle: the receiver / left operand
    fontB,      \* FontStyle: the argument / right operand
    fontC,      \* FontStyle: the third operand of a chained union
    fontOp,     \* which FontStyle operations were last applied
    fontOut,    \* the outcome of those operations
    edgesIn,    \* Edges<i32>: the receiver of Edges::map
    edgesFn,    \* the function handed to Edges::map
    edgesOut,   \* the outcome of edgesIn.map(edgesFn)
    borderIn,   \* Border: the receiver of with_color and is_none
    borderArg,  \* Color: the argument of with_color
    borderOut,  \* the outcome of with_color, with is_none before and after
    chainFields, \* the fields the builder chain of this run may set
    chain,      \* Style: the value the builder chain has built so far
    chainPre,   \* ghost: chain as it was before the last call
    chainCall,  \* ghost: the last call of the chain, with its argument
    chainSet,   \* ghost: the fields the calls since Style::new() have named
    assocFields, \* the fields the three styles of this run may declare
    assocA,     \* Style: the first of three styles merged in a row
    assocB,     \* Style: the second
    assocC,     \* Style: the third
    assocOut,   \* the outcome of merging them in both groupings
    rtN,        \* Int: the value rendered and parsed back
    rtFmt,      \* which rendering was last taken of rtN
    rtText,     \* Option<String>: the rendering, as characters
    rtOut,      \* the outcome of Int::from_str on the rendering
    impGraph,   \* the package graph: <<p, q>> when package p depends on q
    impNames,   \* the name of each package of the graph
    name_to_id, \* the index from a name to the package last put under it
    changed,    \* the names `cargo workspaces changed` printed
    impacted,   \* the names found impacted so far
    queue,      \* the names still to visit, front first
    impInserts, \* ghost: how often impacted.insert returned true, by name
    impPrinted, \* Option: the list that was printed
    impPc       \* where main is: "loop", "done" or "exit"

styleVars == <<declared, base, overlay, pre, layers, merged, op>>
hexVars == <<hexIn, hexEdits, hexOut>>
intVars == <<intIn, intTokens, intOut>>
radixVars == <<radixIn, radixArg, radixTokens, radixOut>>
arithVars == <<arithA, arithB, arithOp, arithOut>>
floatVars == <<floatA, floatB, floatEqOut, floatHashOut, floatCmpOut>>
unitVars == <<unitA, unitB, unitSrc, unitEdges, unitObs>>
fontVars == <<fontA, fontB, fontC, fontOp, fontOut>>
edgesVars == <<edgesIn, edgesFn, edgesOut>>
borderVars == <<borderIn, borderArg, borderOut>>
chainVars == <<chainFields, chain, chainPre, chainCall, chainSet>>
assocVars == <<assocFields, assocA, assocB, assocC, assocOut>>
rtVars == <<rtN, rtFmt, rtText, rtOut>>
impVars ==
    <<impGraph, impNames, name_to_id, changed, impacted, queue, impInserts,
      impPrinted, impPc>>
vars == <<declared, base, overlay, pre, layers, merged, op,
          hexIn, hexEdits, hexOut, intIn, intTokens, intOut,
          radixIn, radixArg, radixTokens, radixOut,
          arithA, arithB, arithOp, arithOut,
          floatA, floatB, floatEqOut, floatHashOut, floatCmpOut,
          unitA, unitB, unitSrc, unitEdges, unitObs,
          fontA, fontB, fontC, fontOp, fontOut,
          edgesIn, edgesFn, edgesOut,
          borderIn, borderArg, borderOut,
          chainFields, chain, chainPre, chainCall, chainSet,
          assocFields, assocA, assocB, assocC, assocOut,
          rtN, rtFmt, rtText, rtOut,
          impGraph, impNames, name_to_id, changed, impacted, queue,
          impInserts, impPrinted, impPc>>

earlierVars ==
    <<styleVars, hexVars, intVars, radixVars, arithVars, floatVars, unitVars,
      fontVars>>
laterVars == <<edgesVars, borderVars, chainVars, assocVars, rtVars, impVars>>

\* What a call on one value type leaves alone: the state of the others.
notStyleVars ==
    <<hexVars, intVars, radixVars, arithVars, floatVars, unitVars,
      fontVars,
      laterVars>>
notHexVars ==
    <<styleVars, intVars, radixVars, arithVars, floatVars, unitVars,
      fontVars,
      laterVars>>
notIntVars ==
    <<styleVars, hexVars, radixVars, arithVars, floatVars, unitVars,
      fontVars,
      laterVars>>
notRadixVars ==
    <<styleVars, hexVars, intVars, arithVars, floatVars, unitVars,
      fontVars,
      laterVars>>
notArithVars ==
    <<styleVars, hexVars, intVars, radixVars, floatVars, unitVars,
      fontVars,
      laterVars>>
notFloatVars ==
    <<styleVars, hexVars, intVars, radixVars, arithVars, unitVars,
      fontVars,
      laterVars>>
notFontVars ==
    <<styleVars, hexVars, intVars, radixVars, arithVars, floatVars,
      unitVars,
      laterVars>>
notUnitVars ==
    <<styleVars, hexVars, intVars, radixVars, arithVars, floatVars,
      fontVars,
      laterVars>>
notEdgesVars ==
    <<earlierVars, borderVars, chainVars, assocVars, rtVars, impVars>>
notBorderVars ==
    <<earlierVars, edgesVars, chainVars, assocVars, rtVars, impVars>>
notChainVars ==
    <<earlierVars, edgesVars, borderVars, assocVars, rtVars, impVars>>
notAssocVars ==
    <<earlierVars, edgesVars, borderVars, chainVars, rtVars, impVars>>
notRtVars ==
    <<earlierVars, edgesVars, borderVars, chainVars, assocVars, impVars>>
notImpVars ==
    <<earlierVars, edgesVars, borderVars, chainVars, assocVars, rtVars>>

-----------------------------------------------------------------------------
(* Option<T> *)

None == <<>>
Some(v) == <<v>>
is_some(o) == o # None
is_none(o) == o = None
unwrap(o) == o[1]

(* How a call ended: it returned a value, it panicked, or it was not made. *)

NotCalled == [outcome |-> "none"]
Returned(v) == [outcome |-> "returned", value |-> v]
Panicked == [outcome |-> "panicked"]

(* Characters and bytes: the printable ASCII characters, from 32 (space). *)

Printable ==
    << " ", "!", "quote", "#", "$", "%", "&", "'", "(", ")", "*", "+", ",", "-",
       ".", "/", "0", "1", "2", "3", "4", "5", "6", "7", "8", "9", ":", ";",
       "<", "=", ">", "?", "@", "A", "B", "C", "D", "E", "F", "G", "H", "I",
       "J", "K", "L", "M", "N", "O", "P", "Q", "R", "S", "T", "U", "V", "W",
       "X", "Y", "Z", "[", "backslash", "]", "^", "_", "backtick", "a", "b", "c",
       "d", "e",
       "f", "g", "h", "i", "j", "k", "l", "m", "n", "o", "p", "q", "r", "s",
       "t", "u", "v", "w", "x", "y", "z", "{", "|", "}", "~" >>

\* The byte of a character.
ByteOf(c) == 31 + CHOOSE i \in DOMAIN Printable : Printable[i] = c

\* The bytes of a string given by its characters.
Bytes(cs) == [i \in DOMAIN cs |-> ByteOf(cs[i])]

(* u8 arithmetic; an overflow gives -1, and -1 in gives -1 out. *)

u8_overflowed(x) == x < 0 \/ x > 255
u8_sub(a, b) == IF u8_overflowed(a) \/ u8_overflowed(b) \/ a < b THEN -1 ELSE a - b
u8_add(a, b) ==
    IF u8_overflowed(a) \/ u8_overflowed(b) \/ a + b > 255 THEN -1 ELSE a + b

RECURSIVE BitsOr(_, _, _)
\* The bitwise or of the low n bits of a and b.
BitsOr(a, b, n) ==
    IF n = 0 THEN 0
    ELSE (IF a % 2 = 1 \/ b % 2 = 1 THEN 1 ELSE 0)
            + 2 * BitsOr(a \div 2, b \div 2, n - 1)

\* a << k on u8: the bits shifted out are lost.
u8_shl(a, k) == IF u8_overflowed(a) THEN -1 ELSE (a * (2 ^ k)) % 256
u8_bitor(a, b) ==
    IF u8_overflowed(a) \/ u8_overflowed(b) THEN -1 ELSE BitsOr(a, b, 8)

-----------------------------------------------------------------------------
(* unit.rs: Unit *)

Cells(n) == [tag |-> "Cells", n |-> n]
Percent(n) == [tag |-> "Percent", n |-> n]
Fill(w) == [tag |-> "Fill", w |-> w]
Auto == [tag |-> "Auto"]
Unset == [tag |-> "Unset"]
UnitAUTO == Auto
UnitUNSET == Unset
UnitZERO == Cells(0)
UnitFULL == Percent(100)

UnitDefaultZeroCells == Cells(0)

\* <Unit as Default>::default
UnitDefault == Unset

\* Unit::cells, Unit::percent, Unit::fill
cells(n) == Cells(n)
percent(n) == Percent(n)
fill(w) == Fill(w)

\* matches!(self, Self::Cells(_) | Self::Percent(_))
is_definite(self) == self.tag = "Cells" \/ self.tag = "Percent"

is_intrinsic_fill_only(self) == self.tag = "Fill"

\* matches!(self, Self::Fill(_) | Self::Auto)
is_intrinsic(self) == self.tag = "Fill" \/ self.tag = "Auto"

\* matches!(self, Self::Unset)
is_unset(self) == self.tag = "Unset"

as_cells(self) == IF self.tag = "Cells" THEN Some(self.n) ELSE None

as_percent(self) == IF self.tag = "Percent" THEN Some(self.n) ELSE None

\* #[derive(PartialEq)]: the same variant with the same payload.
unit_eq(self, other) ==
    /\ self.tag = other.tag
    /\ CASE self.tag \in {"Cells", "Percent"} -> self.n = other.n
         [] self.tag = "Fill" -> self.w = other.w
         [] OTHER -> TRUE

(* border.rs: Edges<T>, Border *)

Edges(t, r, b, l) == [top |-> t, right |-> r, bottom |-> b, left |-> l]
EdgesAll(v) == [top |-> v, right |-> v, bottom |-> v, left |-> v]
EdgesDefault == EdgesAll(UnitDefault)
symmetric(vertical, horizontal) ==
    [top |-> vertical, right |-> horizontal,
     bottom |-> vertical, left |-> horizontal]

\* Edges::map with every side read from the side opposite to it.
map_mirrored(self, f) ==
    [top |-> f[self.bottom], right |-> f[self.left],
     bottom |-> f[self.top], left |-> f[self.right]]

\* Edges::map; the closure f is a function value.
map(self, f) ==
    [top |-> f[self.top], right |-> f[self.right],
     bottom |-> f[self.bottom], left |-> f[self.left]]

Border(style, color) == [style |-> style, color |-> color]
BorderNONE == Border("None", None)
BorderSOLID == Border("Solid", None)
BorderROUNDED == Border("Rounded", None)
border_with_color(self, color) == [self EXCEPT !.color = Some(color)]

\* Border::is_none that also wants the colour override absent.
border_is_none_uncoloured(self) == self.style = "None" /\ self.color = None

\* Border::is_none
border_is_none(self) == self.style = "None"

(* color.rs: Color *)

Named(n) == [tag |-> "Named", name |-> n]
Rgb(r, g, b) == [tag |-> "Rgb", r |-> r, g |-> g, b |-> b]
Indexed(i) == [tag |-> "Indexed", i |-> i]
ColorInherit == [tag |-> "Inherit"]
ColorNone == [tag |-> "None"]

\* hex_nibble without its third arm: upper-case digits are not digits.
hex_nibble_lower_only(b) ==
    IF b \in ByteOf("0")..ByteOf("9") THEN Some(u8_sub(b, ByteOf("0")))
    ELSE IF b \in ByteOf("a")..ByteOf("f")
         THEN Some(u8_add(u8_sub(b, ByteOf("a")), 10))
    ELSE None

hex_nibble(b) ==
    IF b \in ByteOf("0")..ByteOf("9") THEN Some(u8_sub(b, ByteOf("0")))
    ELSE IF b \in ByteOf("a")..ByteOf("f")
         THEN Some(u8_add(u8_sub(b, ByteOf("a")), 10))
    ELSE IF b \in ByteOf("A")..ByteOf("F")
         THEN Some(u8_add(u8_sub(b, ByteOf("A")), 10))
    ELSE None

hex_byte(hi, lo) ==
    LET h == hex_nibble(hi)
        l == hex_nibble(lo)
    IN  IF is_some(h) /\ is_some(l)
        THEN Some(u8_bitor(u8_shl(unwrap(h), 4), unwrap(l)))
        ELSE None

from_hex_bytes(bytes) ==
    IF Len(bytes) = 7 /\ bytes[1] = ByteOf("#")
    THEN LET r == hex_byte(bytes[2], bytes[3])
             g == hex_byte(bytes[4], bytes[5])
             b == hex_byte(bytes[6], bytes[7])
         IN  IF is_some(r) /\ is_some(g) /\ is_some(b)
             THEN Some(Rgb(unwrap(r), unwrap(g), unwrap(b)))
             ELSE None
    ELSE None

\* The call Color::from_hex_bytes(bytes): an arithmetic overflow aborts it.
call_from_hex_bytes(bytes) ==
    LET ret == from_hex_bytes(bytes)
    IN  IF /\ is_some(ret)
           /\ \/ u8_overflowed(unwrap(ret).r)
              \/ u8_overflowed(unwrap(ret).g)
              \/ u8_overflowed(unwrap(ret).b)
        THEN Panicked
        ELSE Returned(ret)

(* number.rs: Int, and the parsing of the standard library it calls *)

I32_MAX == 2147483647
I32_MIN == -2147483647 - 1

Ok(v) == [tag |-> "Ok", val |-> v]
Err(kind) == [tag |-> "Err", kind |-> kind]
is_ok(r) == r.tag = "Ok"

\* Int(v); Int is taken by the integers of TLA+.
IntNew(v) == [int |-> v]

\* i32::checked_add, checked_sub and checked_mul (by a positive factor).
checked_add(a, b) ==
    IF b >= 0
    THEN IF a > I32_MAX - b THEN None ELSE Some(a + b)
    ELSE IF a < I32_MIN - b THEN None ELSE Some(a + b)

checked_sub(a, b) ==
    IF b >= 0
    THEN IF a < I32_MIN + b THEN None ELSE Some(a - b)
    ELSE IF a > I32_MAX + b THEN None ELSE Some(a - b)

checked_mul(a, k) ==
    LET least == IF I32_MIN % k = 0 THEN I32_MIN \div k ELSE (I32_MIN \div k) + 1
        most == I32_MAX \div k
    IN  IF a > most \/ a < least THEN None ELSE Some(a * k)

\* -a on i32: it overflows for i32::MIN, where the wrapped result is i32::MIN.
neg_overflows(a) == a = I32_MIN
wrapping_neg(a) == IF a = I32_MIN THEN I32_MIN ELSE -a

WhiteSpace == {" "}

RECURSIVE trim_start(_)
trim_start(s) ==
    IF s # <<>> /\ Head(s) \in WhiteSpace THEN trim_start(Tail(s)) ELSE s

RECURSIVE trim_end(_)
trim_end(s) ==
    IF s # <<>> /\ s[Len(s)] \in WhiteSpace
    THEN trim_end(SubSeq(s, 1, Len(s) - 1))
    ELSE s

\* str::trim
trim(s) == trim_end(trim_start(s))

\* str::strip_prefix
strip_prefix(s, prefix) ==
    IF Len(s) >= Len(prefix) /\ SubSeq(s, 1, Len(prefix)) = prefix
    THEN Some(SubSeq(s, Len(prefix) + 1, Len(s)))
    ELSE None

DigitChars ==
    <<"0", "1", "2", "3", "4", "5", "6", "7", "8", "9", "a", "b", "c", "d",
      "e", "f", "g", "h", "i", "j", "k", "l", "m", "n", "o", "p", "q", "r",
      "s", "t", "u", "v", "w", "x", "y", "z">>
UpperDigitChars ==
    <<"0", "1", "2", "3", "4", "5", "6", "7", "8", "9", "A", "B", "C", "D",
      "E", "F", "G", "H", "I", "J", "K", "L", "M", "N", "O", "P", "Q", "R",
      "S", "T", "U", "V", "W", "X", "Y", "Z">>

\* char::to_digit
to_digit(c, radix) ==
    LET ds == {d \in 0..(radix - 1) :
                  DigitChars[d + 1] = c \/ UpperDigitChars[d + 1] = c}
    IN  IF ds = {} THEN None ELSE Some(CHOOSE d \in ds : TRUE)

RECURSIVE accumulate(_, _, _, _)
\* The digit loop of i32::from_str_radix: result = result * radix +/- digit.
accumulate(digits, radix, is_positive, result) ==
    IF digits = <<>> THEN Ok(result)
    ELSE LET mul == checked_mul(result, radix)
             x == to_digit(Head(digits), radix)
         IN  IF is_none(x) THEN Err("InvalidDigit")
             ELSE IF is_none(mul)
                  THEN Err(IF is_positive THEN "PosOverflow" ELSE "NegOverflow")
             ELSE LET next == IF is_positive
                              THEN checked_add(unwrap(mul), unwrap(x))
                              ELSE checked_sub(unwrap(mul), unwrap(x))
                  IN  IF is_none(next)
                      THEN Err(IF is_positive THEN "PosOverflow"
                               ELSE "NegOverflow")
                      ELSE accumulate(Tail(digits), radix, is_positive,
                                      unwrap(next))

\* i32::from_str_radix
i32_from_str_radix(src, radix) ==
    IF src = <<>> THEN Err("Empty")
    ELSE IF Head(src) \in {"+", "-"} /\ Tail(src) = <<>> THEN Err("InvalidDigit")
    ELSE IF Head(src) = "+" THEN accumulate(Tail(src), radix, TRUE, 0)
    ELSE IF Head(src) = "-" THEN accumulate(Tail(src), radix, FALSE, 0)
    ELSE accumulate(src, radix, TRUE, 0)

\* str::parse::<i32>
parse_i32(src) == i32_from_str_radix(src, 10)

\* <Int as FromStr>::from_str, up to the value it is about to negate.
from_str_parsed(str) ==
    LET s == trim(str)
        negative == is_some(strip_prefix(s, <<"-">>))
        body == IF is_some(strip_prefix(s, <<"-">>))
                THEN unwrap(strip_prefix(s, <<"-">>))
                ELSE IF is_some(strip_prefix(s, <<"+">>))
                     THEN unwrap(strip_prefix(s, <<"+">>))
                     ELSE s
        parsed == IF is_some(strip_prefix(body, <<"0", "b">>))
                  THEN i32_from_str_radix(unwrap(strip_prefix(body, <<"0", "b">>)), 2)
                  ELSE IF is_some(strip_prefix(body, <<"0", "o">>))
                  THEN i32_from_str_radix(unwrap(strip_prefix(body, <<"0", "o">>)), 8)
                  ELSE IF is_some(strip_prefix(body, <<"0", "x">>))
                  THEN i32_from_str_radix(unwrap(strip_prefix(body, <<"0", "x">>)), 16)
                  ELSE parse_i32(body)
    IN  [negative |-> negative, parsed |-> parsed]

\* <Int as FromStr>::from_str in a build with (debug) or without (release)
\* overflow checks: `-parsed` panics or wraps when it overflows.
from_str(str, overflow_checks) ==
    LET p == from_str_parsed(str)
    IN  IF ~is_ok(p.parsed) THEN Returned(p.parsed)
        ELSE IF ~p.negative THEN Returned(Ok(IntNew(p.parsed.val)))
        ELSE IF neg_overflows(p.parsed.val) /\ overflow_checks THEN Panicked
        ELSE Returned(Ok(IntNew(wrapping_neg(p.parsed.val))))

RECURSIVE fmt_magnitude(_)
\* The decimal digits of |n| for n # 0, most significant first; the sign of
\* n is kept while dividing, so that i32::MIN needs no negation.
fmt_magnitude(n) ==
    IF n = 0 THEN <<>>
    ELSE IF n > 0
         THEN Append(fmt_magnitude(n \div 10), DigitChars[(n % 10) + 1])
         ELSE LET d == (10 - (n % 10)) % 10
              IN  Append(fmt_magnitude((n + d) \div 10), DigitChars[d + 1])

\* format!("{}", n) for an i32
fmt_display(n) ==
    IF n = 0 THEN <<"0">>
    ELSE IF n < 0 THEN <<"-">> \o fmt_magnitude(n)
    ELSE fmt_magnitude(n)

\* Digit i (from the least significant) of the 32-bit two's complement of n,
\* in digits of `width` bits.
radix_digit(n, width, i) ==
    LET low == i * width
        bits == IF low + width > 32 THEN 32 - low ELSE width
    IN  IF low = 31 THEN (IF n < 0 THEN 1 ELSE 0)
        ELSE (n \div (2 ^ low)) % (2 ^ bits)

RECURSIVE strip_leading_zeros(_)
strip_leading_zeros(digits) ==
    IF Len(digits) > 1 /\ Head(digits) = 0
    THEN strip_leading_zeros(Tail(digits))
    ELSE digits

\* format!("{:b}", n), "{:o}", "{:x}" and "{:X}" for an i32: the value is
\* rendered as the unsigned integer with the same 32 bits, without a sign.
fmt_radix(n, width, chars) ==
    LET count == (32 + width - 1) \div width
        all == [k \in 1..count |-> radix_digit(n, width, count - k)]
        kept == strip_leading_zeros(all)
    IN  [k \in 1..Len(kept) |-> chars[kept[k] + 1]]

\* <Int as Display>::fmt, as the String of to_string()
to_string(self) == fmt_display(self.int)

to_bin(self) == <<"0", "b">> \o fmt_radix(self.int, 1, DigitChars)
to_oct(self) == <<"0", "o">> \o fmt_radix(self.int, 3, DigitChars)
to_hex(self) == <<"0", "x">> \o fmt_radix(self.int, 4, DigitChars)
to_hex_upper(self) == <<"0", "X">> \o fmt_radix(self.int, 4, UpperDigitChars)

\* a + b and a - b on i32 when they overflow: the result wrapped to 32 bits.
wrapping_add(a, b) ==
    IF is_some(checked_add(a, b)) THEN a + b
    ELSE IF a > 0 THEN (a + I32_MIN) + (b + I32_MIN)
    ELSE (a - I32_MIN) + (b - I32_MIN)

wrapping_sub(a, b) ==
    IF is_some(checked_sub(a, b)) THEN a - b
    ELSE IF a >= 0 THEN (a + I32_MIN) - (b - I32_MIN)
    ELSE (a - I32_MIN) - (b + I32_MIN)

\* <Int as Add>::add, <Int as Sub>::sub and <Int as Neg>::neg in a build
\* with or without overflow checks: the i32 operator panics or wraps when it
\* overflows.
add(self, rhs, overflow_checks) ==
    IF is_none(checked_add(self.int, rhs.int)) /\ overflow_checks THEN Panicked
    ELSE Returned(IntNew(wrapping_add(self.int, rhs.int)))

sub(self, rhs, overflow_checks) ==
    IF is_none(checked_sub(self.int, rhs.int)) /\ overflow_checks THEN Panicked
    ELSE Returned(IntNew(wrapping_sub(self.int, rhs.int)))

neg(self, overflow_checks) ==
    IF neg_overflows(self.int) /\ overflow_checks THEN Panicked
    ELSE Returned(IntNew(wrapping_neg(self.int)))

\* IntParseError
InvalidRadix == [tag |-> "InvalidRadix"]
ParseIntError(e) == [tag |-> "ParseIntError", kind |-> e]

\* Result::map(Self) and Result::map_err(IntParseError::ParseIntError)
map_Self(r) == IF is_ok(r) THEN Ok(IntNew(r.val)) ELSE r
map_err_ParseIntError(r) == IF is_ok(r) THEN r ELSE Err(ParseIntError(r.kind))

from_str_radix_exclusive_upper(s, radix) ==
    IF (radix < 2) \/ (radix >= 36)
    THEN Err(InvalidRadix)
    ELSE map_err_ParseIntError(map_Self(i32_from_str_radix(s, radix)))

\* Int::from_str_radix
from_str_radix(s, radix) ==
    IF (radix < 2) \/ (radix > 36)
    THEN Err(InvalidRadix)
    ELSE map_err_ParseIntError(map_Self(i32_from_str_radix(s, radix)))

(* number.rs: Float, by the fields of its IEEE 754 bit pattern *)

Float(sign, exp, man) == [sign |-> sign, exp |-> exp, man |-> man]
FloatZERO == Float(0, 0, 0)
FloatONE == Float(0, 127, 0)
FloatHALF == Float(0, 126, 0)

\* f32::to_bits: the 32-bit pattern sign | exponent | mantissa (1, 8 and 23
\* bits), kept as its high and low 16-bit halves.
to_bits(f) ==
    [hi |-> f.sign * 32768 + f.exp * 128 + (f.man \div 65536),
     lo |-> f.man % 65536]

\* f32::is_nan
is_nan(f) == f.exp = 255 /\ f.man # 0

\* The place of a non-NaN f32 in the numeric order: its magnitude grows with
\* exponent then mantissa, and both zeros are at 0.
f32_rank(f) ==
    LET magnitude == f.exp * 8388608 + f.man
    IN  IF f.sign = 0 THEN magnitude ELSE -magnitude

\* f32::partial_cmp (IEEE 754 comparison): None when either side is NaN.
f32_partial_cmp(a, b) ==
    IF is_nan(a) \/ is_nan(b) THEN None
    ELSE IF f32_rank(a) < f32_rank(b) THEN Some("Less")
    ELSE IF f32_rank(a) > f32_rank(b) THEN Some("Greater")
    ELSE Some("Equal")

float_eq_numeric(self, other) == f32_partial_cmp(self, other) = Some("Equal")

\* <Float as PartialEq>::eq
float_eq(self, other) == to_bits(self) = to_bits(other)

\* <Float as Hash>::hash: what it writes to the hasher state.
float_hash(self, state) == Append(state, to_bits(self))

\* <Float as PartialOrd>::partial_cmp
float_partial_cmp(self, other) == f32_partial_cmp(self, other)

(* font.rs: FontStyle *)

FontStyle(bits) == [bits |-> bits]
FontNORMAL == FontStyle(0)
FontBOLD == FontStyle(1)
FontITALIC == FontStyle(2)
FontUNDERLINE == FontStyle(4)
FontBLINK == FontStyle(8)
FontSTRIKETHROUGH == FontStyle(16)
FontDIM == FontStyle(32)

RECURSIVE BitsAnd(_, _, _)
\* The bitwise and of the low n bits of a and b.
BitsAnd(a, b, n) ==
    IF n = 0 THEN 0
    ELSE (IF a % 2 = 1 /\ b % 2 = 1 THEN 1 ELSE 0)
            + 2 * BitsAnd(a \div 2, b \div 2, n - 1)

\* !a, a & b and a | b on u8
u8_not(a) == 255 - a
u8_and(a, b) == BitsAnd(a, b, 8)
u8_or(a, b) == BitsOr(a, b, 8)

font_with_by_addition(self, other) == FontStyle((self.bits + other.bits) % 256)

\* FontStyle::with
font_with(self, other) == FontStyle(u8_or(self.bits, other.bits))

without_by_subtraction(self, other) == FontStyle((self.bits - other.bits) % 256)

without_keeping(self, other) == FontStyle(u8_and(self.bits, other.bits))

\* FontStyle::without
without(self, other) == FontStyle(u8_and(self.bits, u8_not(other.bits)))

has_some_bit(self, other) == u8_and(self.bits, other.bits) # 0

\* FontStyle::has
has(self, other) == u8_and(self.bits, other.bits) = other.bits

\* FontStyle::has_any
has_any(self, other) == u8_and(self.bits, other.bits) # 0

\* FontStyle::is_normal
is_normal(self) == self.bits = 0

\* self | rhs, self & rhs, and self after self |= rhs
bitor(self, rhs) == font_with(self, rhs)
bitand(self, rhs) == FontStyle(u8_and(self.bits, rhs.bits))
bitor_assign(self, rhs) == FontStyle(u8_or(self.bits, rhs.bits))

-----------------------------------------------------------------------------
(* lib.rs: Style *)

\* The fields of Style, in the order the struct declares them.
FieldOrder ==
    << "width", "height", "min_width", "min_height", "max_width", "max_height",
       "padding", "margin", "display", "flex_direction", "flex_grow",
       "flex_shrink", "align_items", "justify_content", "gap", "color",
       "background", "border", "opacity", "text_align", "font_style",
       "overflow" >>

Fields == {FieldOrder[i] : i \in DOMAIN FieldOrder}

StyleNew ==
    [ width |-> None, height |-> None, min_width |-> None, min_height |-> None,
      max_width |-> None, max_height |-> None, padding |-> None,
      margin |-> None, display |-> None, flex_direction |-> None,
      flex_grow |-> None, flex_shrink |-> None, align_items |-> None,
      justify_content |-> None, gap |-> None, color |-> None,
      background |-> None, border |-> None, opacity |-> None,
      text_align |-> None, font_style |-> None, overflow |-> None ]

\* #[derive(Default)]: every field is Option::default().
StyleDefault == [f \in Fields |-> None]

clone(self) == self

\* The values of field f that look empty: the type's Default, a zero, "none".
EmptyValuesOf(f) ==
    CASE f \in {"width", "height", "min_width", "min_height", "max_width",
                "max_height", "gap"} -> {Unset, UnitZERO, Fill(0)}
      [] f \in {"padding", "margin"} -> {EdgesDefault, EdgesAll(UnitZERO)}
      [] f = "display" -> {"Block"}
      [] f = "flex_direction" -> {"Row"}
      [] f \in {"flex_grow", "flex_shrink", "opacity"} ->
            {FloatZERO, Float(1, 0, 0)}
      [] f = "align_items" -> {"Stretch"}
      [] f = "justify_content" -> {"Start"}
      [] f \in {"color", "background"} -> {ColorNone, ColorInherit}
      [] f = "border" -> {BorderNONE}
      [] f = "text_align" -> {"Left"}
      [] f = "font_style" -> {FontNORMAL}
      [] f = "overflow" -> {"Visible"}

\* m! with the bias reversed: a field the base holds is kept.
m_left_biased(st, f) ==
    IF is_some(st.other[f]) /\ is_none(st.self[f])
    THEN [st EXCEPT !.self[f] = Some(unwrap(st.other[f]))]
    ELSE st

\* m! reading an empty-looking value of the overlay as "not declared".
m_conflating(st, f) ==
    IF is_some(st.other[f]) /\ unwrap(st.other[f]) \notin EmptyValuesOf(f)
    THEN [st EXCEPT !.self[f] = Some(unwrap(st.other[f]))]
    ELSE st

\* m! merging inside Edges: a side the overlay leaves Unset keeps the
\* side of the base.
m_sidewise(st, f) ==
    IF is_some(st.other[f])
    THEN IF f \in {"padding", "margin"} /\ is_some(st.self[f])
         THEN LET b == unwrap(st.self[f])
                  o == unwrap(st.other[f])
                  side(x, y) == IF y = Unset THEN x ELSE y
              IN  [st EXCEPT !.self[f] =
                      Some(Edges(side(b.top, o.top), side(b.right, o.right),
                                 side(b.bottom, o.bottom),
                                 side(b.left, o.left)))]
         ELSE [st EXCEPT !.self[f] = Some(unwrap(st.other[f]))]
    ELSE st

\* m! clearing a field that both places hold.
m_toggling(st, f) ==
    IF is_some(st.other[f])
    THEN [st EXCEPT !.self[f] = IF is_some(st.self[f]) THEN None
                                 ELSE Some(unwrap(st.other[f]))]
    ELSE st

\* One expansion of the macro m!: st holds the two places of merge.
m(st, f) ==
    IF is_some(st.other[f])
    THEN [st EXCEPT !.self[f] = Some(unwrap(st.other[f]))]
    ELSE st

\* merge by whole record: an overlay that declares anything replaces the base.
merge_whole_record(self, other) ==
    [ self |-> IF other = [f \in DOMAIN other |-> None] THEN self ELSE other,
      other |-> other ]

merge(self, other) ==
    LET s0 == [self |-> self, other |-> other]
        s1 == m(s0, "width")
        s2 == m(s1, "height")
        s3 == m(s2, "min_width")
        s4 == m(s3, "min_height")
        s5 == m(s4, "max_width")
        s6 == m(s5, "max_height")
        s7 == m(s6, "padding")
        s8 == m(s7, "margin")
        s9 == m(s8, "display")
        s10 == m(s9, "flex_direction")
        s11 == m(s10, "flex_grow")
        s12 == m(s11, "flex_shrink")
        s13 == m(s12, "align_items")
        s14 == m(s13, "justify_content")
        s15 == m(s14, "gap")
        s16 == m(s15, "color")
        s17 == m(s16, "background")
        s18 == m(s17, "border")
        s19 == m(s18, "opacity")
        s20 == m(s19, "text_align")
        s21 == m(s20, "font_style")
        s22 == m(s21, "overflow")
    IN  s22

\* merged_with merging into self instead of into a clone of it.
merged_with_in_place(self, other) ==
    LET st == merge(self, other)
    IN  [self |-> st.self, other |-> st.other, ret |-> st.self]

merged_with(self, other) ==
    LET r == clone(self)
        st == merge(r, other)
    IN  [self |-> self, other |-> st.other, ret |-> st.self]

with_width(self, v) == [self EXCEPT !.width = Some(v)]
with_height(self, v) == [self EXCEPT !.height = Some(v)]

\* with_min_width written from with_width, the field left as it was there.
with_min_width_as_width(self, v) == [self EXCEPT !.width = Some(v)]

with_min_width(self, v) == [self EXCEPT !.min_width = Some(v)]
with_min_height(self, v) == [self EXCEPT !.min_height = Some(v)]
with_max_width(self, v) == [self EXCEPT !.max_width = Some(v)]
with_max_height(self, v) == [self EXCEPT !.max_height = Some(v)]
with_padding(self, v) == [self EXCEPT !.padding = Some(v)]
with_margin(self, v) == [self EXCEPT !.margin = Some(v)]
with_padding_all(self, v) == with_padding(self, EdgesAll(v))
with_margin_all(self, v) == with_margin(self, EdgesAll(v))
with_display(self, v) == [self EXCEPT !.display = Some(v)]
with_flex_direction(self, v) == [self EXCEPT !.flex_direction = Some(v)]
with_flex_grow(self, v) == [self EXCEPT !.flex_grow = Some(v)]
with_flex_shrink(self, v) == [self EXCEPT !.flex_shrink = Some(v)]
with_align_items(self, v) == [self EXCEPT !.align_items = Some(v)]
with_justify_content(self, v) == [self EXCEPT !.justify_content = Some(v)]
with_gap(self, v) == [self EXCEPT !.gap = Some(v)]
with_color(self, v) == [self EXCEPT !.color = Some(v)]
with_background(self, v) == [self EXCEPT !.background = Some(v)]
with_border(self, v) == [self EXCEPT !.border = Some(v)]
with_opacity(self, v) == [self EXCEPT !.opacity = Some(v)]
with_text_align(self, v) == [self EXCEPT !.text_align = Some(v)]
with_font_style(self, v) == [self EXCEPT !.font_style = Some(v)]
with_overflow(self, v) == [self EXCEPT !.overflow = Some(v)]

\* The builder that sets field f.
with(self, f, v) ==
    CASE f = "width" -> with_width(self, v)
      [] f = "height" -> with_height(self, v)
      [] f = "min_width" -> with_min_width(self, v)
      [] f = "min_height" -> with_min_height(self, v)
      [] f = "max_width" -> with_max_width(self, v)
      [] f = "max_height" -> with_max_height(self, v)
      [] f = "padding" -> with_padding(self, v)
      [] f = "margin" -> with_margin(self, v)
      [] f = "display" -> with_display(self, v)
      [] f = "flex_direction" -> with_flex_direction(self, v)
      [] f = "flex_grow" -> with_flex_grow(self, v)
      [] f = "flex_shrink" -> with_flex_shrink(self, v)
      [] f = "align_items" -> with_align_items(self, v)
      [] f = "justify_content" -> with_justify_content(self, v)
      [] f = "gap" -> with_gap(self, v)
      [] f = "color" -> with_color(self, v)
      [] f = "background" -> with_background(self, v)
      [] f = "border" -> with_border(self, v)
      [] f = "opacity" -> with_opacity(self, v)
      [] f = "text_align" -> with_text_align(self, v)
      [] f = "font_style" -> with_font_style(self, v)
      [] f = "overflow" -> with_overflow(self, v)

\* has_layout without its last line.
has_layout_without_gap(self) ==
    \/ is_some(self.width)
    \/ is_some(self.height)
    \/ is_some(self.min_width)
    \/ is_some(self.min_height)
    \/ is_some(self.max_width)
    \/ is_some(self.max_height)
    \/ is_some(self.padding)
    \/ is_some(self.margin)

has_layout(self) ==
    \/ is_some(self.width)
    \/ is_some(self.height)
    \/ is_some(self.min_width)
    \/ is_some(self.min_height)
    \/ is_some(self.max_width)
    \/ is_some(self.max_height)
    \/ is_some(self.padding)
    \/ is_some(self.margin)
    \/ is_some(self.gap)

\* has_visuals counting only the four fields of the "Visuals" section.
has_visuals_without_typography(self) ==
    \/ is_some(self.color)
    \/ is_some(self.background)
    \/ is_some(self.border)
    \/ is_some(self.opacity)

has_visuals(self) ==
    \/ is_some(self.color)
    \/ is_some(self.background)
    \/ is_some(self.border)
    \/ is_some(self.opacity)
    \/ is_some(self.text_align)
    \/ is_some(self.font_style)

\* is_empty answered from the two other introspection helpers.
is_empty_by_groups(self) == ~has_layout(self) /\ ~has_visuals(self)

is_empty(self) == self = StyleDefault

-----------------------------------------------------------------------------
(* The cascade: a producer declares properties on an overlay, the overlay   *)
(* is merged into the resolved Style, and the next overlay starts empty.    *)

\* How many overlays one run merges.
MaxLayers == 2

\* The values a producer may declare for each field: the first is the value
\* that looks empty for the type (its Default, or a zero), the others do not.
DeclVals ==
    [ width |-> <<Unset, UnitFULL>>,
      height |-> <<UnitZERO, Cells(24)>>,
      min_width |-> <<Unset, Cells(10)>>,
      min_height |-> <<Fill(0), Fill(1)>>,
      max_width |-> <<Unset, Auto>>,
      max_height |-> <<Unset, Cells(-1)>>,
      padding |-> <<EdgesDefault, Edges(Cells(1), Unset, Cells(1), Unset),
                    EdgesAll(Cells(2))>>,
      margin |-> <<EdgesAll(UnitZERO), EdgesAll(Auto)>>,
      display |-> <<"Block", "None">>,
      flex_direction |-> <<"Row", "ColumnReverse">>,
      flex_grow |-> <<FloatZERO, FloatONE>>,
      flex_shrink |-> <<Float(1, 0, 0), FloatHALF>>,
      align_items |-> <<"Stretch", "Center">>,
      justify_content |-> <<"Start", "SpaceBetween">>,
      gap |-> <<Unset, Cells(1)>>,
      color |-> <<ColorNone, Named("Red")>>,
      background |-> <<ColorInherit, Rgb(255, 95, 0)>>,
      border |-> <<BorderNONE, border_with_color(BorderROUNDED, Named("Cyan"))>>,
      opacity |-> <<FloatZERO, FloatHALF>>,
      text_align |-> <<"Left", "Right">>,
      font_style |-> <<FontNORMAL, FontStyle(3)>>,
      overflow |-> <<"Visible", "Scroll">> ]

EmptyLooking(f) == DeclVals[f][1]
ValuesOf(f) == {DeclVals[f][i] : i \in DOMAIN DeclVals[f]}

\* What one run declares: a single property, or two that are neighbours in
\* the declaration order of Style (the last one's neighbour is the first).
Declarations ==
    {{FieldOrder[i]} : i \in DOMAIN FieldOrder}
        \cup {{FieldOrder[i], FieldOrder[(i % Len(FieldOrder)) + 1]} :
                 i \in DOMAIN FieldOrder}

StyleStart(D) ==
    /\ declared \in D
    /\ base = StyleNew
    /\ overlay = StyleNew
    /\ pre = StyleNew
    /\ layers = <<StyleNew>>
    /\ merged = None
    /\ op = "new"

\* overlay = overlay.with_f(v)
With(f, v) ==
    /\ overlay' = with(overlay, f, v)
    /\ merged' = None
    /\ op' = "with"
    /\ UNCHANGED <<declared, base, pre, layers, notStyleVars>>

\* overlay = Style::new()
NewOverlay ==
    /\ overlay' = StyleNew
    /\ merged' = None
    /\ op' = "new"
    /\ UNCHANGED <<declared, base, pre, layers, notStyleVars>>

\* base.merge(&overlay)
Merge ==
    /\ Len(layers) <= MaxLayers
    /\ LET st == merge(base, overlay)
       IN  /\ base' = st.self
           /\ overlay' = st.other
    /\ pre' = base
    /\ layers' = Append(layers, overlay)
    /\ merged' = None
    /\ op' = "merge"
    /\ UNCHANGED <<declared, notStyleVars>>

\* merged = base.merged_with(&overlay)
MergedWith ==
    /\ LET r == merged_with(base, overlay)
       IN  /\ base' = r.self
           /\ overlay' = r.other
           /\ merged' = Some(r.ret)
    /\ op' = "merged_with"
    /\ UNCHANGED <<declared, pre, layers, notStyleVars>>

Declare == \E f \in declared : \E v \in ValuesOf(f) : With(f, v)

-----------------------------------------------------------------------------
(* Hex decode: a token of the test suite, with at most MaxEdits bytes      *)
(* overwritten, appended or dropped, is handed to Color::from_hex_bytes.    *)

\* How many bytes of a token one run edits.
MaxEdits == 1

HexTokens ==
    { Bytes(<<"#", "f", "f", "5", "f", "0", "0">>),
      Bytes(<<"#", "0", "0", "0", "0", "0", "0">>),
      Bytes(<<"#", "F", "F", "F", "F", "F", "F">>),
      Bytes(<<"#", "a", "A", "b", "B", "c", "C">>),
      Bytes(<<"f", "f", "5", "f", "0", "0">>),
      Bytes(<<"#", "f", "f", "5", "f", "g", "g">>),
      Bytes(<<"#", "f", "f", "f">>),
      <<>> }

\* The bytes an edit writes: the digits, the bytes next to them, the extremes.
EditBytes ==
    {0, 127, 128, 255}
        \cup (ByteOf("!")..ByteOf("$"))
        \cup (ByteOf("/")..ByteOf(":"))
        \cup (ByteOf("@")..ByteOf("G"))
        \cup (ByteOf("_")..ByteOf("g"))

HexStart(T) ==
    /\ hexIn \in T
    /\ hexEdits = 0
    /\ hexOut = NotCalled

HexEdit(new) ==
    /\ hexOut = NotCalled
    /\ hexEdits < MaxEdits
    /\ hexIn' = new
    /\ hexEdits' = hexEdits + 1
    /\ UNCHANGED <<hexOut, notHexVars>>

HexOverwrite ==
    \E i \in DOMAIN hexIn : \E b \in EditBytes \ {hexIn[i]} :
        HexEdit([hexIn EXCEPT ![i] = b])

HexAppend == \E b \in EditBytes : HexEdit(Append(hexIn, b))

HexDrop == hexIn # <<>> /\ HexEdit(SubSeq(hexIn, 1, Len(hexIn) - 1))

\* hexOut = Color::from_hex_bytes(hexIn)
HexDecode ==
    /\ hexOut = NotCalled
    /\ hexOut' = call_from_hex_bytes(hexIn)
    /\ UNCHANGED <<hexIn, hexEdits, notHexVars>>

(* Integer parse: a string written from at most MaxTokens tokens is handed *)
(* to Int::from_str.                                                        *)

\* How many tokens one input is written from.
MaxTokens == 4

IntTokens ==
    { <<"-">>, <<"+">>, <<" ">>, <<"0", "b">>, <<"0", "o">>, <<"0", "x">>,
      <<"5">>, <<"1", "0", "1", "0">>, <<"1", "2">>, <<"F", "F">>, <<"g">>,
      <<"2", "1", "4", "7", "4", "8", "3", "6", "4", "7">>,
      <<"2", "1", "4", "7", "4", "8", "3", "6", "4", "8">>,
      <<"8", "0", "0", "0", "0", "0", "0", "0">> }

IntStart ==
    /\ intIn = <<>>
    /\ intTokens = 0
    /\ intOut = NotCalled

IntWrite ==
    /\ intOut = NotCalled
    /\ intTokens < MaxTokens
    /\ \E t \in IntTokens : intIn' = intIn \o t
    /\ intTokens' = intTokens + 1
    /\ UNCHANGED <<intOut, notIntVars>>

\* intOut = intIn.parse::<Int>()
IntParse ==
    /\ intOut = NotCalled
    /\ \E overflow_checks \in BOOLEAN : intOut' = from_str(intIn, overflow_checks)
    /\ UNCHANGED <<intIn, intTokens, notIntVars>>

(* Radix parse: a string written from at most MaxRadixTokens tokens is     *)
(* handed to Int::from_str_radix with a radix.                              *)

\* How many tokens one input is written from.
MaxRadixTokens == 3

RadixTokens ==
    { <<"-">>, <<"+">>, <<" ">>, <<"0">>, <<"1">>, <<"9">>, <<"f">>, <<"g">>,
      <<"z">>, <<"Z">>,
      <<"2", "1", "4", "7", "4", "8", "3", "6", "4", "7">>,
      <<"2", "1", "4", "7", "4", "8", "3", "6", "4", "8">> }

\* The radixes handed in (u32): around both ends of 2..=36, and the common ones.
Radixes == {0, 1, 2, 8, 10, 16, 35, 36, 37, 64}

RadixStart ==
    /\ radixIn = <<>>
    /\ radixArg = 10
    /\ radixTokens = 0
    /\ radixOut = NotCalled

RadixWrite ==
    /\ radixOut = NotCalled
    /\ radixTokens < MaxRadixTokens
    /\ \E t \in RadixTokens : radixIn' = radixIn \o t
    /\ radixTokens' = radixTokens + 1
    /\ UNCHANGED <<radixArg, radixOut, notRadixVars>>

\* radixOut = Int::from_str_radix(radixIn, radix)
RadixParse ==
    /\ radixOut = NotCalled
    /\ \E radix \in Radixes :
          /\ radixArg' = radix
          /\ radixOut' = Returned(from_str_radix(radixIn, radix))
    /\ UNCHANGED <<radixIn, radixTokens, notRadixVars>>

(* Integer arithmetic: +, - and unary - on two Int operands.                *)

\* The operands: the ends of the 32-bit range, their neighbours, and the
\* values around zero.
IntOperands ==
    {IntNew(v) : v \in {I32_MIN, I32_MIN + 1, -5, -1, 0, 1, 3, 4, 5, 7, 10,
                        I32_MAX - 1, I32_MAX}}

ArithStart(operands) ==
    /\ arithA \in operands
    /\ arithB \in operands
    /\ arithOp = "none"
    /\ arithOut = NotCalled

\* arithOut = arithA + arithB
ArithAdd ==
    /\ arithOut = NotCalled
    /\ arithOp' = "add"
    /\ \E overflow_checks \in BOOLEAN :
          arithOut' = add(arithA, arithB, overflow_checks)
    /\ UNCHANGED <<arithA, arithB, notArithVars>>

\* arithOut = arithA - arithB
ArithSub ==
    /\ arithOut = NotCalled
    /\ arithOp' = "sub"
    /\ \E overflow_checks \in BOOLEAN :
          arithOut' = sub(arithA, arithB, overflow_checks)
    /\ UNCHANGED <<arithA, arithB, notArithVars>>

\* arithOut = -arithA
ArithNeg ==
    /\ arithOut = NotCalled
    /\ arithOp' = "neg"
    /\ \E overflow_checks \in BOOLEAN : arithOut' = neg(arithA, overflow_checks)
    /\ UNCHANGED <<arithA, arithB, notArithVars>>

(* Float comparison: ==, hash and partial_cmp on two Float operands.        *)

\* The operands: both signs; the exponents of zero and the subnormals, of the
\* least normal, of 0.5 and 1.0, of the greatest finite, and of the
\* infinities and NaNs; the mantissas at both ends and at the quiet-NaN bit.
F32s ==
    {Float(sign, exp, man) :
        sign \in {0, 1}, exp \in {0, 1, 126, 127, 254, 255},
        man \in {0, 1, 4194304, 8388607}}

FloatStart(operands) ==
    /\ floatA \in operands
    /\ floatB \in operands
    /\ floatEqOut = NotCalled
    /\ floatHashOut = NotCalled
    /\ floatCmpOut = NotCalled

\* floatEqOut = (floatA == floatB)
FloatEq ==
    /\ floatEqOut = NotCalled
    /\ floatEqOut' = Returned(float_eq(floatA, floatB))
    /\ UNCHANGED <<floatA, floatB, floatHashOut, floatCmpOut, notFloatVars>>

\* floatA and floatB are each hashed by a fresh hasher.
FloatHash ==
    /\ floatHashOut = NotCalled
    /\ floatHashOut' = Returned([a |-> float_hash(floatA, <<>>),
                                 b |-> float_hash(floatB, <<>>)])
    /\ UNCHANGED <<floatA, floatB, floatEqOut, floatCmpOut, notFloatVars>>

\* floatCmpOut = floatA.partial_cmp(&floatB)
FloatPartialCmp ==
    /\ floatCmpOut = NotCalled
    /\ floatCmpOut' = Returned(float_partial_cmp(floatA, floatB))
    /\ UNCHANGED <<floatA, floatB, floatEqOut, floatHashOut, notFloatVars>>

(* Units: the predicates, the extractors and == on two Units, and the       *)
(* defaults of Unit and Edges<Unit>.                                        *)

\* The units given: every variant, with payloads at the ends of their types
\* and at the values the constants and tests use.
Units ==
    {cells(n) : n \in {I32_MIN, -1, 0, 1, 10, 42, I32_MAX}}
        \cup {percent(n) : n \in {0, 50, 75, 100, 101, 255}}
        \cup {fill(w) : w \in {0, 1, 2, 65535}}
        \cup {UnitAUTO, UnitUNSET}

UnitStart(units) ==
    /\ unitA \in units
    /\ unitB \in units
    /\ unitSrc = "given"
    /\ unitEdges = None
    /\ unitObs = NotCalled

\* unitA = Unit::default()
UnitNewDefault ==
    /\ unitObs = NotCalled
    /\ unitSrc = "given"
    /\ unitA' = UnitDefault
    /\ unitSrc' = "default"
    /\ UNCHANGED <<unitB, unitEdges, unitObs, notUnitVars>>

\* unitEdges = Edges::<Unit>::default()
EdgesNewDefault ==
    /\ unitEdges = None
    /\ unitEdges' = Some(EdgesDefault)
    /\ UNCHANGED <<unitA, unitB, unitSrc, unitObs, notUnitVars>>

\* What the predicates and extractors say of one unit.
unit_observed(u) ==
    [is_definite |-> is_definite(u), is_intrinsic |-> is_intrinsic(u),
     is_unset |-> is_unset(u), as_cells |-> as_cells(u),
     as_percent |-> as_percent(u)]

\* Every predicate and extractor is called on unitA and on unitB, and
\* unitA == unitB and unitB == unitB are evaluated.
UnitObserve ==
    /\ unitObs = NotCalled
    /\ unitObs' = Returned([a |-> unit_observed(unitA),
                            b |-> unit_observed(unitB),
                            eq |-> unit_eq(unitA, unitB),
                            eq_self |-> unit_eq(unitB, unitB)])
    /\ UNCHANGED <<unitA, unitB, unitSrc, unitEdges, notUnitVars>>

(* Font flags: union, subtraction and the tests on FontStyle values.        *)

\* Every 8-bit flag set: FontStyle(pub u8) can hold any of them.
FontStyles == {FontStyle(bits) : bits \in 0..255}

\* The third operand of a chained union: no flag, each named flag, all bits.
FontThirds ==
    {FontNORMAL, FontBOLD, FontITALIC, FontUNDERLINE, FontBLINK,
     FontSTRIKETHROUGH, FontDIM, FontStyle(255)}

FontStart(styles) ==
    /\ fontA \in styles
    /\ fontB \in styles
    /\ fontC = FontNORMAL
    /\ fontOp = "none"
    /\ fontOut = NotCalled

\* The unions of fontA, fontB and a third operand, by | and by with.
FontUnion ==
    /\ fontOp = "none"
    /\ fontOp' = "union"
    /\ \E c \in FontThirds :
          /\ fontC' = c
          /\ fontOut' = Returned(
                [ab |-> bitor(fontA, fontB),
                 ba |-> bitor(fontB, fontA),
                 ab_c |-> bitor(bitor(fontA, fontB), c),
                 a_bc |-> bitor(fontA, bitor(fontB, c)),
                 aa |-> bitor(fontA, fontA),
                 a_normal |-> bitor(fontA, FontNORMAL),
                 normal_a |-> bitor(FontNORMAL, fontA),
                 with_ab |-> font_with(fontA, fontB),
                 with_ba |-> font_with(fontB, fontA),
                 assign_ab |-> bitor_assign(fontA, fontB)])
    /\ UNCHANGED <<fontA, fontB, notFontVars>>

\* fontA.without(fontB), and fontA.without(fontA).is_normal()
FontSubtract ==
    /\ fontOp = "none"
    /\ fontOp' = "subtract"
    /\ fontOut' = Returned(
          [without |-> without(fontA, fontB),
           without_self_is_normal |-> is_normal(without(fontA, fontA))])
    /\ UNCHANGED <<fontA, fontB, fontC, notFontVars>>

\* The tests of fontA against fontB, and of their union against each.
FontTest ==
    /\ fontOp = "none"
    /\ fontOp' = "test"
    /\ fontOut' = Returned(
          [has |-> has(fontA, fontB),
           has_any |-> has_any(fontA, fontB),
           is_normal |-> is_normal(fontA),
           union_has_a |-> has(bitor(fontA, fontB), fontA),
           union_has_b |-> has(bitor(fontA, fontB), fontB)])
    /\ UNCHANGED <<fontA, fontB, fontC, notFontVars>>

(* Font flags in use: flag sets are built from NORMAL and the six named     *)
(* flags by with, without, |, & and |=.                                     *)

FontConstants ==
    {FontNORMAL, FontBOLD, FontITALIC, FontUNDERLINE, FontBLINK,
     FontSTRIKETHROUGH, FontDIM}

\* fontB = one of the named constants
FontPick ==
    /\ \E k \in FontConstants : fontB' = k
    /\ fontOp' = "pick"
    /\ UNCHANGED <<fontA, fontC, fontOut, notFontVars>>

\* The value built so far becomes the operand, and the operand the value.
FontSwap ==
    /\ fontA' = fontB
    /\ fontB' = fontA
    /\ fontOp' = "swap"
    /\ UNCHANGED <<fontC, fontOut, notFontVars>>

\* fontA = fontA.with(fontB)
FontApplyWith ==
    /\ fontA' = font_with(fontA, fontB)
    /\ fontOp' = "with"
    /\ UNCHANGED <<fontB, fontC, fontOut, notFontVars>>

\* fontA = fontA.without(fontB)
FontApplyWithout ==
    /\ fontA' = without(fontA, fontB)
    /\ fontOp' = "without"
    /\ UNCHANGED <<fontB, fontC, fontOut, notFontVars>>

\* fontA = fontA | fontB
FontApplyBitOr ==
    /\ fontA' = bitor(fontA, fontB)
    /\ fontOp' = "bitor"
    /\ UNCHANGED <<fontB, fontC, fontOut, notFontVars>>

\* fontA = fontA & fontB
FontApplyBitAnd ==
    /\ fontA' = bitand(fontA, fontB)
    /\ fontOp' = "bitand"
    /\ UNCHANGED <<fontB, fontC, fontOut, notFontVars>>

\* fontA |= fontB
FontApplyBitOrAssign ==
    /\ fontA' = bitor_assign(fontA, fontB)
    /\ fontOp' = "bitor_assign"
    /\ UNCHANGED <<fontB, fontC, fontOut, notFontVars>>

(* Edges<i32>::map over every receiver and every closure on a small range *)
EdgeVals == {0, 4, 5}
MappedVals == {0, 8, 10}
EdgesGiven ==
    {Edges(t, r, b, l) : t \in EdgeVals, r \in EdgeVals,
                         b \in EdgeVals, l \in EdgeVals}
        \cup {EdgesAll(v) : v \in EdgeVals}
        \cup {symmetric(v, h) : v \in EdgeVals, h \in EdgeVals}
Closures == [EdgeVals -> MappedVals]

EdgesStart(given, closures) ==
    /\ edgesIn \in given
    /\ edgesFn \in closures
    /\ edgesOut = NotCalled

EdgesMap ==
    /\ edgesOut' = Returned(map(edgesIn, edgesFn))
    /\ UNCHANGED <<edgesIn, edgesFn, notEdgesVars>>

(* A builder chain: Style::new() followed by with_* calls on the fields   *)
(* of one declaration.                                                    *)
UniformUnits == {Cells(2), Auto, Unset}

ChainStart(D) ==
    /\ chainFields \in D
    /\ chain = StyleNew
    /\ chainPre = StyleNew
    /\ chainCall = [name |-> "new"]
    /\ chainSet = {}

\* chain = Style::new()
ChainNew ==
    /\ chain' = StyleNew
    /\ chainPre' = chain
    /\ chainCall' = [name |-> "new"]
    /\ chainSet' = {}
    /\ UNCHANGED <<chainFields, notChainVars>>

\* chain = chain.with_f(v)
ChainWith ==
    \E f \in chainFields : \E v \in ValuesOf(f) :
        /\ chain' = with(chain, f, v)
        /\ chainPre' = chain
        /\ chainCall' = [name |-> "with", f |-> f, v |-> v]
        /\ chainSet' = chainSet \cup {f}
        /\ UNCHANGED <<chainFields, notChainVars>>

\* chain = chain.with_padding_all(v) or chain.with_margin_all(v)
ChainWithAll ==
    \E f \in chainFields \cap {"padding", "margin"} : \E v \in UniformUnits :
        /\ chain' = IF f = "padding" THEN with_padding_all(chain, v)
                                     ELSE with_margin_all(chain, v)
        /\ chainPre' = chain
        /\ chainCall' = [name |-> "with_all", f |-> f, v |-> v]
        /\ chainSet' = chainSet \cup {f}
        /\ UNCHANGED <<chainFields, notChainVars>>

(* Three styles over the fields of one declaration, merged in a row in    *)
(* both groupings, and one of them merged with the empty Style.           *)

\* The styles that declare, of the fields in D, none, some or all.
StylesOver(D) ==
    {[f \in Fields |-> IF f \notin D \/ pick[f] = 0 THEN None
                        ELSE Some(DeclVals[f][pick[f]])] :
        pick \in {p \in [D -> 0..3] : \A f \in D : p[f] <= Len(DeclVals[f])}}

AssocStart(D) ==
    /\ assocFields \in D
    /\ assocA \in StylesOver(assocFields)
    /\ assocB \in StylesOver(assocFields)
    /\ assocC \in StylesOver(assocFields)
    /\ assocOut = NotCalled

\* a.merged_with(&b).merged_with(&c), a.merged_with(&b.merged_with(&c)),
\* Style::new().merged_with(&a) and a.merged_with(&Style::new())
AssocMergedWith ==
    /\ \E ab \in {merged_with(assocA, assocB).ret} :
       \E bc \in {merged_with(assocB, assocC).ret} :
           assocOut' =
               Returned(
                   [left |-> merged_with(ab, assocC).ret,
                    right |-> merged_with(assocA, bc).ret,
                    onto_empty |-> merged_with(StyleNew, assocA).ret,
                    with_empty |-> merged_with(assocA, StyleNew).ret])
    /\ UNCHANGED <<assocFields, assocA, assocB, assocC, notAssocVars>>

(* Round trip: an Int is rendered by Display or a to_* helper, and the     *)
(* rendering is handed to Int::from_str.                                  *)
RoundTripValues ==
    {IntNew(n) : n \in {I32_MIN, I32_MIN + 1, -1000000000, -65536, -256,
                        -255, -100, -16, -10, -9, -8, -5, -2, -1, 0, 1, 2,
                        5, 7, 8, 9, 10, 15, 16, 100, 255, 256, 4095, 65535,
                        1000000000, I32_MAX - 1, I32_MAX}}

RtStart(values) ==
    /\ rtN \in values
    /\ rtFmt = "none"
    /\ rtText = None
    /\ rtOut = NotCalled

Render(fmt, text) ==
    /\ rtFmt' = fmt
    /\ rtText' = Some(text)
    /\ rtOut' = NotCalled
    /\ UNCHANGED <<rtN, notRtVars>>

\* rtText = rtN.to_string()
RtToString == Render("display", to_string(rtN))

\* rtText = rtN.to_bin(), to_oct(), to_hex() and to_hex_upper()
RtToBin == Render("to_bin", to_bin(rtN))
RtToOct == Render("to_oct", to_oct(rtN))
RtToHex == Render("to_hex", to_hex(rtN))
RtToHexUpper == Render("to_hex_upper", to_hex_upper(rtN))

\* rtOut = rtText.parse::<Int>()
RtParse ==
    /\ is_some(rtText)
    /\ rtOut = NotCalled
    /\ \E overflow_checks \in BOOLEAN :
           rtOut' = from_str(unwrap(rtText), overflow_checks)
    /\ UNCHANGED <<rtN, rtFmt, rtText, notRtVars>>

(* ci-impact: the names impacted by a set of changed names, found by a    *)
(* worklist over the reverse dependencies of a package graph.             *)

\* How many dependency edges the graph holds at most.
MaxDependencies == 3

\* The packages of the graph, numbered.
Packages == DOMAIN impNames

\* The names a package or a changed crate may have, in ascending order.
PackageNames == <<"ci-impact", "oxidui_macros", "oxidui_style">>
NameSet == {PackageNames[i] : i \in DOMAIN PackageNames}

\* str::cmp on two of these names: a < b
name_lt(a, b) ==
    \E i, j \in DOMAIN PackageNames :
        PackageNames[i] = a /\ PackageNames[j] = b /\ i < j

\* The orders in which the elements of a set may be iterated.
Orders(S) ==
    {o \in [1..Cardinality(S) -> S] :
        \A i, j \in DOMAIN o : i # j => o[i] # o[j]}

RECURSIVE reverse_from(_, _)
\* The packages that reach one of `found` along dependency edges.
reverse_from(graph, found) ==
    LET more == found \cup {e[1] : e \in {d \in graph : d[2] \in found}}
    IN  IF more = found THEN found ELSE reverse_from(graph, more)

\* graph.query_reverse(&[pkg_id]).resolve(): pkg_id and every package that
\* depends on it, directly or through others.
query_reverse(graph, pkg_id) == reverse_from(graph, {pkg_id})

RECURSIVE sort(_)
\* Vec::sort on a Vec of distinct names, given as their set.
sort(names) ==
    IF names = {} THEN <<>>
    ELSE LET least == CHOOSE n \in names :
                          \A o \in names \ {n} : name_lt(n, o)
         IN  <<least>> \o sort(names \ {least})

\* The loop body looking the name up before it records it.
loop_body_lookup_first(st, pkg_id, order) ==
    LET pkg_name == Head(st.queue)
        rest == Tail(st.queue)
        absent(name) == name \notin (st.impacted \cup {pkg_name})
    IN  IF pkg_id = None THEN [st EXCEPT !.queue = rest]
        ELSE IF pkg_name \in st.impacted THEN [st EXCEPT !.queue = rest]
        ELSE [impacted |-> st.impacted \cup {pkg_name},
              queue |-> rest \o SelectSeq(order, absent),
              inserts |-> [st.inserts EXCEPT ![pkg_name] = @ + 1]]

\* One turn of `while let Some(pkg_name) = queue.pop_front()`; pkg_id is
\* name_to_id.get(&pkg_name) and order the names of reverse.packages(Reverse)
\* as iterated.
loop_body(st, pkg_id, order) ==
    LET pkg_name == Head(st.queue)
        rest == Tail(st.queue)
        absent(name) == name \notin (st.impacted \cup {pkg_name})
    IN  IF pkg_name \in st.impacted THEN [st EXCEPT !.queue = rest]
        ELSE IF pkg_id = None
        THEN [impacted |-> st.impacted \cup {pkg_name},
              queue |-> rest,
              inserts |-> [st.inserts EXCEPT ![pkg_name] = @ + 1]]
        ELSE [impacted |-> st.impacted \cup {pkg_name},
              queue |-> rest \o SelectSeq(order, absent),
              inserts |-> [st.inserts EXCEPT ![pkg_name] = @ + 1]]

\* The graphs: any dependency edges between distinct packages, cycles
\* included.
PackageGraphs(pkgs) ==
    {g \in SUBSET {e \in pkgs \X pkgs : e[1] # e[2]} :
        Cardinality(g) <= MaxDependencies}

\* The namings of at most as many packages as there are names: several
\* packages may carry one name (two versions of a crate); packages are
\* numbered so that names do not decrease.
Namings ==
    UNION {{n \in [1..k -> NameSet] :
               \A p, q \in 1..k : p < q => ~name_lt(n[q], n[p])} :
           k \in 0..Len(PackageNames)}

\* main up to the loop: the changed names are read, the graph is loaded,
\* every package is put into name_to_id under its name (a later package
\* replaces an earlier one of the same name), and the queue is filled from
\* the changed set in the order the set iterates.
ImpactStart(namings, changes) ==
    /\ impNames \in namings
    /\ impGraph \in PackageGraphs(Packages)
    /\ changed \in changes
    /\ name_to_id \in
           {ix \in [{impNames[p] : p \in Packages} -> Packages] :
               \A n \in DOMAIN ix : impNames[ix[n]] = n}
    /\ impacted = {}
    /\ impInserts = [n \in NameSet |-> 0]
    /\ impPrinted = None
    /\ IF changed = {}
       THEN queue = <<>> /\ impPc = "exit"
       ELSE queue \in Orders(changed) /\ impPc = "loop"

\* One turn of the loop.
ImpactVisit ==
    /\ impPc = "loop"
    /\ queue # <<>>
    /\ LET pkg_name == Head(queue)
           pkg_id == IF pkg_name \in DOMAIN name_to_id
                     THEN Some(name_to_id[pkg_name]) ELSE None
           reverse == IF pkg_id = None THEN {}
                      ELSE query_reverse(impGraph, unwrap(pkg_id))
       IN  \E packages \in Orders(reverse) :
               LET order == [i \in DOMAIN packages |-> impNames[packages[i]]]
                   st == loop_body([impacted |-> impacted, queue |-> queue,
                                    inserts |-> impInserts], pkg_id, order)
               IN  /\ impacted' = st.impacted
                   /\ queue' = st.queue
                   /\ impInserts' = st.inserts
    /\ UNCHANGED <<impGraph, impNames, name_to_id, changed, impPrinted,
                   impPc, notImpVars>>

\* The loop is left: the impacted names are sorted and printed.
ImpactPrint ==
    /\ impPc = "loop"
    /\ queue = <<>>
    /\ impPrinted' = Some(sort(impacted))
    /\ impPc' = "done"
    /\ UNCHANGED <<impGraph, impNames, name_to_id, changed, impacted,
                   queue, impInserts, notImpVars>>

(* Border::with_color and Border::is_none over every style and colour *)
BorderStyles == {"None", "Solid", "Rounded", "Double", "Thick", "Dashed"}
BorderColors ==
    {Named("Cyan"), Named("Red"), Rgb(255, 0, 0), ColorInherit, ColorNone}
Borders ==
    {BorderNONE, BorderSOLID, BorderROUNDED}
        \cup {Border(s, None) : s \in BorderStyles}
        \cup {Border(s, Some(c)) : s \in BorderStyles, c \in BorderColors}

BorderStart(borders, colors) ==
    /\ borderIn \in borders
    /\ borderArg \in colors
    /\ borderOut = NotCalled

\* let b = borderIn.with_color(borderArg), with is_none read on both.
BorderWithColor ==
    /\ borderOut' =
           Returned([b |-> border_with_color(borderIn, borderArg),
                     before |-> border_is_none(borderIn),
                     after |-> border_is_none(
                                   border_with_color(borderIn, borderArg))])
    /\ UNCHANGED <<borderIn, borderArg, notBorderVars>>

NoStyle == {{}}
NoHex == {<<>>}

\* Nothing was handed to the other value types.
NoOperands == {IntNew(0)}
NoFloats == {FloatZERO}
NoUnits == {UnitUNSET}
NoFonts == {FontNORMAL}
NoEdges == {EdgesAll(0)}
NoClosures == {[v \in EdgeVals |-> 0]}
NoNamings == {<<>>}
NoChanges == {{}}
NoBorders == {BorderNONE}
NoColors == {ColorInherit}
LaterIdle ==
    /\ EdgesStart(NoEdges, NoClosures)
    /\ BorderStart(NoBorders, NoColors)
    /\ ChainStart(NoStyle)
    /\ AssocStart(NoStyle)
    /\ RtStart(NoOperands)
    /\ ImpactStart(NoNamings, NoChanges)
OthersIdle ==
    /\ RadixStart /\ ArithStart(NoOperands) /\ FloatStart(NoFloats)
    /\ UnitStart(NoUnits) /\ FontStart(NoFonts) /\ LaterIdle
EarlierIdle ==
    /\ StyleStart(NoStyle) /\ HexStart(NoHex) /\ IntStart /\ RadixStart
    /\ ArithStart(NoOperands) /\ FloatStart(NoFloats)
    /\ UnitStart(NoUnits) /\ FontStart(NoFonts)

Init == StyleStart(Declarations) /\ HexStart(NoHex) /\ IntStart /\ OthersIdle

Next == Declare \/ NewOverlay \/ Merge \/ MergedWith

Spec == Init /\ [][Next]_vars

InitHex == StyleStart(NoStyle) /\ HexStart(HexTokens) /\ IntStart /\ OthersIdle

NextHex == HexOverwrite \/ HexAppend \/ HexDrop \/ HexDecode

SpecHex == InitHex /\ [][NextHex]_vars

InitInt == StyleStart(NoStyle) /\ HexStart(NoHex) /\ IntStart /\ OthersIdle

NextInt == IntWrite \/ IntParse

SpecInt == InitInt /\ [][NextInt]_vars

InitRadix == StyleStart(NoStyle) /\ HexStart(NoHex) /\ IntStart /\ OthersIdle

NextRadix == RadixWrite \/ RadixParse

SpecRadix == InitRadix /\ [][NextRadix]_vars

InitArith ==
    /\ StyleStart(NoStyle) /\ HexStart(NoHex) /\ IntStart /\ RadixStart
    /\ ArithStart(IntOperands) /\ FloatStart(NoFloats)
    /\ UnitStart(NoUnits) /\ FontStart(NoFonts) /\ LaterIdle

NextArith == ArithAdd \/ ArithSub \/ ArithNeg

SpecArith == InitArith /\ [][NextArith]_vars

InitFloat ==
    /\ StyleStart(NoStyle) /\ HexStart(NoHex) /\ IntStart /\ RadixStart
    /\ ArithStart(NoOperands) /\ FloatStart(F32s)
    /\ UnitStart(NoUnits) /\ FontStart(NoFonts) /\ LaterIdle

NextFloat == FloatEq \/ FloatHash \/ FloatPartialCmp

SpecFloat == InitFloat /\ [][NextFloat]_vars

InitUnit ==
    /\ StyleStart(NoStyle) /\ HexStart(NoHex) /\ IntStart /\ RadixStart
    /\ ArithStart(NoOperands) /\ FloatStart(NoFloats)
    /\ UnitStart(Units) /\ FontStart(NoFonts) /\ LaterIdle

NextUnit == UnitNewDefault \/ EdgesNewDefault \/ UnitObserve

SpecUnit == InitUnit /\ [][NextUnit]_vars

InitFont ==
    /\ StyleStart(NoStyle) /\ HexStart(NoHex) /\ IntStart /\ RadixStart
    /\ ArithStart(NoOperands) /\ FloatStart(NoFloats)
    /\ UnitStart(NoUnits) /\ FontStart(FontStyles) /\ LaterIdle

NextFont == FontUnion \/ FontSubtract \/ FontTest

SpecFont == InitFont /\ [][NextFont]_vars

InitFontUse ==
    /\ StyleStart(NoStyle) /\ HexStart(NoHex) /\ IntStart /\ RadixStart
    /\ ArithStart(NoOperands) /\ FloatStart(NoFloats)
    /\ UnitStart(NoUnits) /\ FontStart(FontConstants) /\ LaterIdle

NextFontUse ==
    \/ FontPick \/ FontSwap \/ FontApplyWith \/ FontApplyWithout
    \/ FontApplyBitOr \/ FontApplyBitAnd \/ FontApplyBitOrAssign

SpecFontUse == InitFontUse /\ [][NextFontUse]_vars

InitEdges ==
    /\ EarlierIdle /\ EdgesStart(EdgesGiven, Closures)
    /\ BorderStart(NoBorders, NoColors)
    /\ ChainStart(NoStyle)
    /\ AssocStart(NoStyle)
    /\ RtStart(NoOperands)
    /\ ImpactStart(NoNamings, NoChanges)

NextEdges == EdgesMap

SpecEdges == InitEdges /\ [][NextEdges]_vars

InitBorder ==
    /\ EarlierIdle /\ EdgesStart(NoEdges, NoClosures)
    /\ BorderStart(Borders, BorderColors)
    /\ ChainStart(NoStyle)
    /\ AssocStart(NoStyle)
    /\ RtStart(NoOperands)
    /\ ImpactStart(NoNamings, NoChanges)

NextBorder == BorderWithColor

SpecBorder == InitBorder /\ [][NextBorder]_vars

InitChain ==
    /\ EarlierIdle /\ EdgesStart(NoEdges, NoClosures)
    /\ BorderStart(NoBorders, NoColors)
    /\ ChainStart(Declarations)
    /\ AssocStart(NoStyle)
    /\ RtStart(NoOperands)
    /\ ImpactStart(NoNamings, NoChanges)

NextChain == ChainNew \/ ChainWith \/ ChainWithAll

SpecChain == InitChain /\ [][NextChain]_vars

InitAssoc ==
    /\ EarlierIdle /\ EdgesStart(NoEdges, NoClosures)
    /\ BorderStart(NoBorders, NoColors)
    /\ ChainStart(NoStyle)
    /\ AssocStart(Declarations)
    /\ RtStart(NoOperands)
    /\ ImpactStart(NoNamings, NoChanges)

NextAssoc == AssocMergedWith

SpecAssoc == InitAssoc /\ [][NextAssoc]_vars

InitRoundTrip ==
    /\ EarlierIdle /\ EdgesStart(NoEdges, NoClosures)
    /\ BorderStart(NoBorders, NoColors)
    /\ ChainStart(NoStyle)
    /\ AssocStart(NoStyle)
    /\ RtStart(RoundTripValues)
    /\ ImpactStart(NoNamings, NoChanges)

NextRoundTrip ==
    \/ RtToString \/ RtToBin \/ RtToOct \/ RtToHex \/ RtToHexUpper
    \/ RtParse

SpecRoundTrip == InitRoundTrip /\ [][NextRoundTrip]_vars

InitImpact ==
    /\ EarlierIdle /\ EdgesStart(NoEdges, NoClosures)
    /\ BorderStart(NoBorders, NoColors)
    /\ ChainStart(NoStyle)
    /\ AssocStart(NoStyle)
    /\ RtStart(NoOperands)
    /\ ImpactStart(Namings, SUBSET NameSet)

NextImpact == ImpactVisit \/ ImpactPrint

\* main is one sequential thread: while a statement is left to run, it runs.
SpecImpact == InitImpact /\ [][NextImpact]_vars /\ WF_vars(NextImpact)

-----------------------------------------------------------------------------
(* Properties of the cascade, checked under Spec.                           *)

\* The fields a Style has, as the documentation lists them.
StyleFieldNames ==
    { "width", "height", "min_width", "min_height", "max_width", "max_height",
      "padding", "margin",
      "display", "flex_direction", "flex_grow", "flex_shrink", "align_items",
      "justify_content", "gap",
      "color", "background", "border", "opacity",
      "text_align", "font_style",
      "overflow" }

LayoutFieldNames ==
    { "width", "height", "min_width", "min_height", "max_width", "max_height",
      "padding", "margin", "gap" }

VisualFieldNames ==
    { "color", "background", "border", "opacity", "text_align", "font_style" }

PresentIn(s) == {f \in DOMAIN s : s[f] # None}

\* The Styles a state holds.
StylesHeld ==
    {base, overlay, pre} \cup {layers[i] : i \in DOMAIN layers}
        \cup {merged[i] : i \in DOMAIN merged}

\* C1: after A.merge(&B), every field of A (overflow included) equals B's
\* field when B declares it, and otherwise the value A held before the call.
C1_RightBiasedMerge ==
    op = "merge" =>
        /\ DOMAIN base = StyleFieldNames
        /\ \A f \in StyleFieldNames :
              base[f] = IF overlay[f] # None THEN overlay[f] ELSE pre[f]

\* A merge in which one field of the base is overridden by a different value
\* and another field, which the overlay does not declare, is kept.
C1_Witness ==
    /\ op = "merge"
    /\ \E f, g \in StyleFieldNames :
          /\ pre[f] # None /\ overlay[f] # None /\ pre[f] # overlay[f]
          /\ pre[g] # None /\ overlay[g] = None /\ base[g] = pre[g]

\* The highest-indexed layer that declares f, 0 when none does.
LastDeclaring(f) ==
    LET idx == {i \in DOMAIN layers : layers[i][f] # None}
    IN  IF idx = {} THEN 0 ELSE CHOOSE i \in idx : \A j \in idx : j <= i

\* C2: after merging S1..Sn in order into S0, every field holds the value of
\* the highest-indexed layer that declares it, and is absent only when no
\* layer declares it: later declarations win per field, not per record.
C2_CascadeOrder ==
    \A f \in StyleFieldNames :
        base[f] = IF LastDeclaring(f) = 0 THEN None
                  ELSE layers[LastDeclaring(f)][f]

\* Two overlays merged: the first declares f and g, the second redeclares
\* only g with another value; f survives from the first, g is the second's.
C2_Witness ==
    /\ Len(layers) = 3
    /\ \E f, g \in StyleFieldNames :
          /\ f # g
          /\ layers[2][f] # None /\ layers[3][f] = None
          /\ layers[2][g] # None /\ layers[3][g] # None
          /\ layers[2][g] # layers[3][g]
          /\ base[f] = layers[2][f]
          /\ base[g] = layers[3][g]

\* C3: merged_with returns a new Style (the right-biased merge of its
\* operands) and leaves both operands as they were; merge changes only the
\* base and leaves the overlay unchanged in every field.
C3_MergeFrame ==
    [][ /\ op' = "merged_with" =>
            /\ base' = base
            /\ overlay' = overlay
            /\ merged' # None
            /\ \A f \in StyleFieldNames :
                  merged'[1][f] =
                      IF overlay[f] # None THEN overlay[f] ELSE base[f]
        /\ op' = "merge" =>
            \A f \in StyleFieldNames : overlay'[f] = overlay[f] ]_vars

\* merged_with has returned a Style that differs from both of its operands.
C3_Witness ==
    /\ op = "merged_with"
    /\ merged # None
    /\ merged[1] # base
    /\ merged[1] # overlay

\* C4: a field that is present is never taken for an absent one, whatever
\* its value: a Style with f = Some(v) differs from the same Style with f
\* absent, is not empty, and as the overlay of a merge puts v in the base.
C4_AbsenceIsNotDefault ==
    \A f \in StyleFieldNames :
        overlay[f] # None =>
            /\ overlay # [overlay EXCEPT ![f] = None]
            /\ ~is_empty(overlay)
            /\ op = "merge" => base[f] = overlay[f]

\* An overlay whose only declaration is an empty-looking value has replaced
\* a different value of the base.
C4_Witness ==
    /\ op = "merge"
    /\ \E f \in StyleFieldNames :
          /\ PresentIn(overlay) = {f}
          /\ overlay[f] = Some(EmptyLooking(f))
          /\ EmptyLooking(f) \in EmptyValuesOf(f)
          /\ pre[f] # None /\ pre[f] # overlay[f]
          /\ base[f] = Some(EmptyLooking(f))

\* C5: is_empty holds exactly of the Style with every field absent; the
\* Style from new() is empty, and one builder call on it makes it non-empty.
C5_IsEmptyExact ==
    /\ \A s \in StylesHeld :
          is_empty(s) <=> \A f \in StyleFieldNames : s[f] = None
    /\ is_empty(StyleNew)
    /\ op = "new" => is_empty(overlay)
    /\ op = "with" => ~is_empty(overlay)

\* One builder call has been made on an empty Style, for a field that is
\* neither a layout nor a visual one.
C5_Witness ==
    /\ op = "with"
    /\ \E f \in StyleFieldNames \ (LayoutFieldNames \cup VisualFieldNames) :
          PresentIn(overlay) = {f}
    /\ ~is_empty(overlay)

\* C6: has_layout holds exactly when one of width, height, min_width,
\* min_height, max_width, max_height, padding, margin, gap is present.
C6_HasLayoutExact ==
    \A s \in StylesHeld :
        has_layout(s) <=> \E f \in LayoutFieldNames : s[f] # None

\* One Style declares only gap and has layout, another only color and has not.
C6_Witness ==
    /\ PresentIn(overlay) = {"gap"} /\ has_layout(overlay)
    /\ PresentIn(base) = {"color"} /\ ~has_layout(base)

\* C7: has_visuals holds exactly when one of color, background, border,
\* opacity, text_align, font_style is present.
C7_HasVisualsExact ==
    \A s \in StylesHeld :
        has_visuals(s) <=> \E f \in VisualFieldNames : s[f] # None

\* One Style declares only font_style and has visuals, another only overflow
\* and has not.
C7_Witness ==
    /\ PresentIn(overlay) = {"font_style"} /\ has_visuals(overlay)
    /\ PresentIn(base) = {"overflow"} /\ ~has_visuals(base)

-----------------------------------------------------------------------------
(* Properties of the hex decode, checked under SpecHex.                     *)

LowerHexDigits ==
    <<"0", "1", "2", "3", "4", "5", "6", "7", "8", "9", "a", "b", "c", "d",
      "e", "f">>
UpperHexDigits ==
    <<"0", "1", "2", "3", "4", "5", "6", "7", "8", "9", "A", "B", "C", "D",
      "E", "F">>

\* The values v such that byte b is the hex digit of value v, in either case.
HexDigitValues(b) ==
    {v \in 0..15 :
        b = ByteOf(LowerHexDigits[v + 1]) \/ b = ByteOf(UpperHexDigits[v + 1])}

IsHexDigit(b) == HexDigitValues(b) # {}
HexDigitValue(b) == CHOOSE v \in HexDigitValues(b) : TRUE

\* '#' followed by six hex digits, and nothing else.
IsHexColorToken(bytes) ==
    /\ Len(bytes) = 7
    /\ bytes[1] = ByteOf("#")
    /\ \A i \in 2..7 : IsHexDigit(bytes[i])

\* C8: from_hex_bytes returns Some(Rgb(r, g, b)) exactly for a 7-byte input
\* of '#' and six hex digits of either case, each channel being 16*hi + lo
\* of its two digits; for any other input it returns None; it never panics.
C8_HexDecodeExact ==
    hexOut # NotCalled =>
        /\ hexOut.outcome = "returned"
        /\ IF IsHexColorToken(hexIn)
           THEN hexOut.value =
                    Some(Rgb(16 * HexDigitValue(hexIn[2]) + HexDigitValue(hexIn[3]),
                             16 * HexDigitValue(hexIn[4]) + HexDigitValue(hexIn[5]),
                             16 * HexDigitValue(hexIn[6]) + HexDigitValue(hexIn[7])))
           ELSE hexOut.value = None

\* "#aAbBcC", with digits of both cases, has been decoded to Rgb(170, 187, 204).
C8_Witness ==
    /\ hexIn = Bytes(<<"#", "a", "A", "b", "B", "c", "C">>)
    /\ hexOut = Returned(Some(Rgb(170, 187, 204)))

-----------------------------------------------------------------------------
(* Properties of the integer parse, checked under SpecInt.                  *)

\* What a string reads as: a radix prefix and digits, or an optional sign
\* and decimal digits.
LiteralShape(s) ==
    IF Len(s) >= 2 /\ SubSeq(s, 1, 2) = <<"0", "b">>
    THEN [sign |-> 1, radix |-> 2, digits |-> SubSeq(s, 3, Len(s))]
    ELSE IF Len(s) >= 2 /\ SubSeq(s, 1, 2) = <<"0", "o">>
    THEN [sign |-> 1, radix |-> 8, digits |-> SubSeq(s, 3, Len(s))]
    ELSE IF Len(s) >= 2 /\ SubSeq(s, 1, 2) = <<"0", "x">>
    THEN [sign |-> 1, radix |-> 16, digits |-> SubSeq(s, 3, Len(s))]
    ELSE IF s # <<>> /\ s[1] = "-"
    THEN [sign |-> -1, radix |-> 10, digits |-> SubSeq(s, 2, Len(s))]
    ELSE IF s # <<>> /\ s[1] = "+"
    THEN [sign |-> 1, radix |-> 10, digits |-> SubSeq(s, 2, Len(s))]
    ELSE [sign |-> 1, radix |-> 10, digits |-> s]

\* The values of character c as a digit of the radix (none or one).
DigitValues(c, radix) ==
    {v \in 0..(radix - 1) : c = LowerHexDigits[v + 1] \/ c = UpperHexDigits[v + 1]}

\* s is a decimal literal with an optional sign, or a 0b, 0o or 0x literal.
IsLiteral(s) ==
    LET l == LiteralShape(s)
    IN  /\ l.digits # <<>>
        /\ \A i \in DOMAIN l.digits : DigitValues(l.digits[i], l.radix) # {}

RECURSIVE SignedValue(_, _, _, _)
\* The value sign * digits in the radix, continued from v; None when it does
\* not fit in 32 bits.
SignedValue(digits, radix, sign, v) ==
    IF digits = <<>> THEN Some(v)
    ELSE LET d == CHOOSE x \in DigitValues(Head(digits), radix) : TRUE
             \* the least v with v * radix - d >= I32_MIN
             least == IF (I32_MIN + d) % radix = 0
                      THEN (I32_MIN + d) \div radix
                      ELSE ((I32_MIN + d) \div radix) + 1
             fits == IF sign = 1
                     THEN v <= (I32_MAX - d) \div radix
                     ELSE v >= least
         IN  IF fits
             THEN SignedValue(Tail(digits), radix, sign, v * radix + sign * d)
             ELSE None

\* The value a literal denotes, None when it does not fit in 32 bits.
Denoted(s) ==
    LET l == LiteralShape(s)
    IN  SignedValue(l.digits, l.radix, l.sign, 0)

\* C9: Int::from_str is total: for every input it returns a value or a parse
\* error, and never aborts with a panic or an arithmetic overflow.
C9_FromStrTotal ==
    intOut # NotCalled =>
        /\ intOut.outcome = "returned"
        /\ intOut.value.tag \in {"Ok", "Err"}

\* C10: Int::from_str parses a decimal literal with an optional sign, or a
\* 0b, 0o or 0x literal, to the value it denotes, whenever that value fits
\* in a 32-bit signed integer.
C10_ParsesDenotedValue ==
    (intOut # NotCalled /\ IsLiteral(intIn) /\ Denoted(intIn) # None) =>
        intOut = Returned(Ok(IntNew(Denoted(intIn)[1])))

SignChars == {"-", "+"}
RadixPrefixes == {<<"0", "b">>, <<"0", "o">>, <<"0", "x">>}

\* s without its first n characters.
Drop(s, n) == SubSeq(s, n + 1, Len(s))

\* The text carries a second sign: right after its leading sign, or right
\* after its radix prefix (which may itself follow a leading sign).
HasSecondSign(str) ==
    LET s == trim(str)
        signed == s # <<>> /\ s[1] \in SignChars
        body == IF signed THEN Drop(s, 1) ELSE s
        prefixed == Len(body) >= 2 /\ SubSeq(body, 1, 2) \in RadixPrefixes
        digits == IF prefixed THEN Drop(body, 2) ELSE body
    IN  \/ signed /\ body # <<>> /\ body[1] \in SignChars
        \/ prefixed /\ digits # <<>> /\ digits[1] \in SignChars

\* C25: Int::from_str accepts at most one sign: text that carries a second
\* sign after the optional leading sign or after a radix prefix ("--5",
\* "+-5", "-+5", "0x-5", "-0b-1") yields a parse error, never a value.
C25_SecondSignIsAnError ==
    (intOut # NotCalled /\ HasSecondSign(intIn)) =>
        /\ intOut.outcome = "returned"
        /\ intOut.value.tag = "Err"

-----------------------------------------------------------------------------
(* Properties of the radix parse, checked under SpecRadix.                  *)

Numerals == <<"0", "1", "2", "3", "4", "5", "6", "7", "8", "9">>
LowerLetters ==
    <<"a", "b", "c", "d", "e", "f", "g", "h", "i", "j", "k", "l", "m", "n",
      "o", "p", "q", "r", "s", "t", "u", "v", "w", "x", "y", "z">>
UpperLetters ==
    <<"A", "B", "C", "D", "E", "F", "G", "H", "I", "J", "K", "L", "M", "N",
      "O", "P", "Q", "R", "S", "T", "U", "V", "W", "X", "Y", "Z">>

\* The values of character c as a digit of the radix (none or one), for a
\* radix in 2..36: 0-9, then a-z or A-Z for ten and above.
RadixDigitValues(c, radix) ==
    {v \in 0..(radix - 1) :
        IF v < 10 THEN c = Numerals[v + 1]
        ELSE c = LowerLetters[v - 9] \/ c = UpperLetters[v - 9]}

IsRadixDigit(c, radix) == RadixDigitValues(c, radix) # {}

AllRadixDigits(s, radix) == \A i \in DOMAIN s : IsRadixDigit(s[i], radix)

RECURSIVE RadixValue(_, _, _, _)
\* The value sign * digits in the radix, continued from v; None when it does
\* not fit in 32 bits.
RadixValue(digits, radix, sign, v) ==
    IF digits = <<>> THEN Some(v)
    ELSE LET d == CHOOSE x \in RadixDigitValues(Head(digits), radix) : TRUE
             \* the least v with v * radix - d >= I32_MIN
             least == IF (I32_MIN + d) % radix = 0
                      THEN (I32_MIN + d) \div radix
                      ELSE ((I32_MIN + d) \div radix) + 1
             fits == IF sign = 1
                     THEN v <= (I32_MAX - d) \div radix
                     ELSE v >= least
         IN  IF fits
             THEN RadixValue(Tail(digits), radix, sign, v * radix + sign * d)
             ELSE None

IsParseIntError(r) == r.tag = "Err" /\ r.kind.tag = "ParseIntError"

\* C11 as stated: from_str_radix fails with InvalidRadix exactly when the
\* radix is outside 2..36; for a radix inside, it fails with the
\* malformed-digits error when the string contains a character that is not
\* a digit of the radix, and returns the denoted value when every character
\* is a digit (and the value fits in 32 bits); it never aborts.
C11_RadixParseAsClaimed ==
    radixOut # NotCalled =>
        /\ radixOut.outcome = "returned"
        /\ (radixOut.value = Err(InvalidRadix)) <=> (radixArg \notin 2..36)
        /\ radixArg \in 2..36 =>
              /\ (\E i \in DOMAIN radixIn : ~IsRadixDigit(radixIn[i], radixArg))
                    => IsParseIntError(radixOut.value)
              /\ ( /\ radixIn # <<>>
                   /\ AllRadixDigits(radixIn, radixArg)
                   /\ RadixValue(radixIn, radixArg, 1, 0) # None )
                    => radixOut.value
                         = Ok(IntNew(RadixValue(radixIn, radixArg, 1, 0)[1]))

\* C11, amended: from_str_radix fails with InvalidRadix exactly when the
\* radix is outside 2..36; for a radix inside, the string is read as one
\* optional leading '+' or '-' followed by digits: when there is at least
\* one digit, every digit is a digit of the radix and the signed value fits
\* in 32 bits, it returns that value, and in every other case it fails with
\* the malformed-digits error; it never aborts.
C11_RadixParse ==
    radixOut # NotCalled =>
        /\ radixOut.outcome = "returned"
        /\ (radixOut.value = Err(InvalidRadix)) <=> (radixArg \notin 2..36)
        /\ radixArg \in 2..36 =>
              LET signed == radixIn # <<>> /\ radixIn[1] \in {"+", "-"}
                  sign == IF radixIn # <<>> /\ radixIn[1] = "-" THEN -1 ELSE 1
                  digits == IF signed THEN Tail(radixIn) ELSE radixIn
                  wellFormed == digits # <<>> /\ AllRadixDigits(digits, radixArg)
              IN  IF wellFormed /\ RadixValue(digits, radixArg, sign, 0) # None
                  THEN radixOut.value
                         = Ok(IntNew(RadixValue(digits, radixArg, sign, 0)[1]))
                  ELSE IsParseIntError(radixOut.value)

\* A signed literal in the largest radix was parsed: "-z" in radix 36.
C11_Witness ==
    /\ radixIn = <<"-", "z">>
    /\ radixArg = 36
    /\ radixOut = Returned(Ok(IntNew(-35)))

-----------------------------------------------------------------------------
(* Properties of the integer arithmetic, checked under SpecArith.           *)

\* C12: Int add, subtract and negate are total over the whole 32-bit signed
\* range: for every operands, the ends of the range included, the operator
\* returns an Int and never raises a fatal failure.
C12_IntArithmeticTotal ==
    arithOut # NotCalled =>
        /\ arithOut.outcome = "returned"
        /\ arithOut.value.int \in I32_MIN..I32_MAX

-----------------------------------------------------------------------------
(* Properties of the Float comparisons, checked under SpecFloat.            *)

FloatNaN == Float(0, 255, 4194304)
FloatNegZERO == Float(1, 0, 0)

\* C13: Float equality is equality of the raw 32-bit patterns: a == b
\* exactly when sign, exponent and mantissa bits are all identical, so a NaN
\* equals itself and +0.0 is unequal to -0.0; equal Floats hash identically.
C13_FloatEqIsBitEq ==
    /\ floatEqOut # NotCalled =>
          /\ floatEqOut.outcome = "returned"
          /\ floatEqOut.value <=> ( /\ floatA.sign = floatB.sign
                                    /\ floatA.exp = floatB.exp
                                    /\ floatA.man = floatB.man )
          /\ (is_nan(floatA) /\ floatB = floatA) => floatEqOut.value
          /\ ({floatA, floatB} = {FloatZERO, FloatNegZERO}) => ~floatEqOut.value
    /\ (floatEqOut = Returned(TRUE) /\ floatHashOut # NotCalled) =>
          /\ floatHashOut.outcome = "returned"
          /\ floatHashOut.value.a = floatHashOut.value.b

\* A NaN was compared with itself and found equal, and both were hashed.
C13_Witness ==
    /\ floatA = FloatNaN
    /\ floatB = FloatNaN
    /\ floatEqOut = Returned(TRUE)
    /\ floatHashOut # NotCalled

\* C14: Float ordering agrees with Float equality: a.partial_cmp(b) yields
\* Equal exactly when a == b, so a NaN compares Equal to itself, and +0.0
\* and -0.0 do not compare Equal.
C14_OrderingAgreesWithEq ==
    (floatCmpOut # NotCalled /\ floatEqOut # NotCalled) =>
        /\ floatCmpOut.outcome = "returned"
        /\ (floatCmpOut.value = Some("Equal")) <=> floatEqOut.value

-----------------------------------------------------------------------------
(* Properties of the units, checked under SpecUnit.                         *)

\* How many of the three classifications hold in an observation.
Classifications(o) ==
    Cardinality({c \in {"is_definite", "is_intrinsic", "is_unset"} : o[c]})

\* C15: Unit classification is a partition: for every Unit exactly one of
\* is_definite, is_intrinsic and is_unset is true; Cells(n) and Percent(n)
\* are definite for every n, Fill(w) and Auto are intrinsic for every w
\* (w = 0 included), and only Unset reports is_unset (Cells(0) does not).
C15_ClassificationPartition ==
    unitObs # NotCalled =>
        /\ unitObs.outcome = "returned"
        /\ Classifications(unitObs.value.a) = 1
        /\ unitA.tag \in {"Cells", "Percent"} => unitObs.value.a.is_definite
        /\ unitA.tag \in {"Fill", "Auto"} => unitObs.value.a.is_intrinsic
        /\ unitObs.value.a.is_unset <=> unitA.tag = "Unset"
        /\ unitA = Cells(0) => ~unitObs.value.a.is_unset

\* Fill(0) and Auto were classified, both as intrinsic.
C15_Witness ==
    /\ unitA = Fill(0)
    /\ unitB = Auto
    /\ unitObs # NotCalled
    /\ unitObs.value.a.is_intrinsic
    /\ unitObs.value.b.is_intrinsic

\* The sides of an Edges value.
Sides == {"top", "right", "bottom", "left"}

\* C16: the default Unit is Unset and never Cells(0): Unit::default()
\* satisfies is_unset and differs from Unit::ZERO, and
\* Edges<Unit>::default() has all four sides Unset.
C16_DefaultIsUnset ==
    /\ unitSrc = "default" =>
          /\ unitA.tag = "Unset"
          /\ unitA # [tag |-> "Cells", n |-> 0]
          /\ unitObs # NotCalled =>
                /\ unitObs.value.a.is_unset
                /\ unitB = UnitZERO => ~unitObs.value.eq
    /\ unitEdges # None =>
          /\ DOMAIN unitEdges[1] = Sides
          /\ \A side \in Sides : unitEdges[1][side].tag = "Unset"

\* Unit::default() was compared with Unit::ZERO, and Edges::default() made.
C16_Witness ==
    /\ unitSrc = "default"
    /\ unitB = UnitZERO
    /\ unitObs # NotCalled
    /\ unitObs.value.a.is_unset
    /\ unitEdges # None

\* C17: a fill weight of 0 is equivalent to auto: ==, is_definite,
\* is_intrinsic, is_unset, as_cells and as_percent each give the same result
\* for Unit::fill(0) as for Unit::AUTO.
C17_FillZeroIsAuto ==
    (unitObs # NotCalled /\ unitA = fill(0) /\ unitB = UnitAUTO) =>
        /\ unitObs.value.a = unitObs.value.b
        /\ unitObs.value.eq = unitObs.value.eq_self

-----------------------------------------------------------------------------
(* Properties of the font flags, checked under SpecFont.                    *)

\* The positions of the bits set in an 8-bit flag set.
FlagsOf(f) == {i \in 0..7 : (f.bits \div (2 ^ i)) % 2 = 1}

\* C18: FontStyle union (with, |) is commutative, associative and idempotent
\* over all 8-bit flag sets, and NORMAL is its identity: a|b = b|a,
\* (a|b)|c = a|(b|c), a|a = a, a|NORMAL = NORMAL|a = a.
C18_UnionLaws ==
    fontOp = "union" =>
        /\ fontOut.outcome = "returned"
        /\ fontOut.value.ab = fontOut.value.ba
        /\ fontOut.value.with_ab = fontOut.value.with_ba
        /\ fontOut.value.with_ab = fontOut.value.ab
        /\ fontOut.value.ab_c = fontOut.value.a_bc
        /\ fontOut.value.aa = fontA
        /\ fontOut.value.a_normal = fontA
        /\ fontOut.value.normal_a = fontA
        /\ fontOut.value.ab.bits \in 0..255

\* BOLD | ITALIC was formed and chained with UNDERLINE.
C18_Witness ==
    /\ fontOp = "union"
    /\ fontA = FontBOLD
    /\ fontB = FontITALIC
    /\ fontC = FontUNDERLINE
    /\ fontOut.value.ab = FontStyle(3)
    /\ fontOut.value.ab_c = FontStyle(7)

\* C19: FontStyle subtraction removes exactly the specified bits:
\* a.without(b) has no bit of b, has every bit of a that is not in b, and
\* has no bit that a lacked; so a.without(a) is_normal.
C19_WithoutRemovesExactly ==
    fontOp = "subtract" =>
        /\ fontOut.outcome = "returned"
        /\ fontOut.value.without.bits \in 0..255
        /\ FlagsOf(fontOut.value.without) \cap FlagsOf(fontB) = {}
        /\ FlagsOf(fontA) \ FlagsOf(fontB) \subseteq FlagsOf(fontOut.value.without)
        /\ FlagsOf(fontOut.value.without) \subseteq FlagsOf(fontA)
        /\ fontOut.value.without_self_is_normal

\* ITALIC was removed from BOLD | ITALIC, leaving BOLD.
C19_Witness ==
    /\ fontOp = "subtract"
    /\ fontA = FontStyle(3)
    /\ fontB = FontITALIC
    /\ fontOut.value.without = FontBOLD

\* C20: has is the all-bits test and has_any the any-bit test: (a|b).has(a)
\* and (a|b).has(b) hold, x.has(c) is false whenever c has a bit not set in
\* x (and true otherwise), x.has_any(c) is true exactly when x and c share
\* a bit, and is_normal is true exactly for the zero flag set.
C20_HasAllHasAny ==
    fontOp = "test" =>
        /\ fontOut.outcome = "returned"
        /\ fontOut.value.union_has_a
        /\ fontOut.value.union_has_b
        /\ fontOut.value.has <=> (FlagsOf(fontB) \subseteq FlagsOf(fontA))
        /\ fontOut.value.has_any <=> (FlagsOf(fontA) \cap FlagsOf(fontB) # {})
        /\ fontOut.value.is_normal <=> (FlagsOf(fontA) = {})

\* BOLD | ITALIC was tested against BOLD | UNDERLINE: not all, but some.
C20_Witness ==
    /\ fontOp = "test"
    /\ fontA = FontStyle(3)
    /\ fontB = FontStyle(5)
    /\ ~fontOut.value.has
    /\ fontOut.value.has_any
    /\ ~fontOut.value.is_normal

-----------------------------------------------------------------------------
(* Properties of the font flags in use, checked under SpecFontUse.          *)

\* The positions of the two reserved bits, 0x40 and 0x80.
ReservedFlags == {6, 7}

\* C21: the two reserved bits are always zero: every FontStyle built from
\* NORMAL and the six named flags by any sequence of with, without, |, &
\* and |= has bits 0x40 and 0x80 clear.
C21_ReservedBitsClear ==
    /\ FlagsOf(fontA) \cap ReservedFlags = {}
    /\ FlagsOf(fontB) \cap ReservedFlags = {}
    /\ fontA.bits \in 0..63
    /\ fontB.bits \in 0..63

\* All six flags were set, and BOLD was then removed by without.
C21_Witness ==
    /\ fontOp = "without"
    /\ fontB = FontBOLD
    /\ fontA = FontStyle(62)

(* ------------------------------------------------------------------ *)
(* Edges                                                                *)
(* ------------------------------------------------------------------ *)

\* C22: Edges::map preserves shape: e.map(f) has top f(e.top), right
\* f(e.right), bottom f(e.bottom) and left f(e.left); in particular
\* Edges::all(v).map(f) equals Edges::all(f(v)), so doubling a uniform 5
\* gives a uniform 10.
C22_MapPreservesShape ==
    edgesOut.outcome = "returned" =>
        LET out == edgesOut.value IN
        /\ out.top = edgesFn[edgesIn.top]
        /\ out.right = edgesFn[edgesIn.right]
        /\ out.bottom = edgesFn[edgesIn.bottom]
        /\ out.left = edgesFn[edgesIn.left]
        /\ \A v \in EdgeVals :
               edgesIn = EdgesAll(v) => out = EdgesAll(edgesFn[v])

\* A mixed receiver was mapped through the doubling closure.
C22_Witness ==
    /\ edgesOut.outcome = "returned"
    /\ edgesFn = [v \in EdgeVals |-> v * 2]
    /\ edgesIn = Edges(0, 4, 5, 5)
    /\ edgesOut.value = Edges(0, 8, 10, 10)

(* ------------------------------------------------------------------ *)
(* Border                                                               *)
(* ------------------------------------------------------------------ *)

\* C23: Border::is_none depends only on the style: b.with_color(c) has
\* colour Some(c), the same style as b and the same is_none as b, and
\* is_none is true exactly when the style is BorderStyle::None.
C23_IsNoneIgnoresColor ==
    borderOut.outcome = "returned" =>
        LET out == borderOut.value IN
        /\ out.b.color = Some(borderArg)
        /\ out.b.style = borderIn.style
        /\ out.after = out.before
        /\ out.before = (borderIn.style = "None")
        /\ out.after = (out.b.style = "None")

\* A coloured border of style None: still none after it was coloured.
C23_Witness ==
    /\ borderOut.outcome = "returned"
    /\ borderIn = BorderNONE
    /\ borderArg = Named("Cyan")
    /\ borderOut.value.b = Border("None", Some(Named("Cyan")))
    /\ borderOut.value.after

(* ------------------------------------------------------------------ *)
(* Builders                                                             *)
(* ------------------------------------------------------------------ *)

\* C24: each builder sets exactly one field: s.with_f(v) has f = Some(v)
\* and every other field as it was in s (with_padding_all and
\* with_margin_all set only padding, or margin, to Edges::all(v)); a field
\* that no call of a chain from Style::new() named is absent.
C24_BuilderSetsOneField ==
    /\ chainCall.name = "with" =>
           /\ chain[chainCall.f] = Some(chainCall.v)
           /\ \A g \in StyleFieldNames \ {chainCall.f} :
                  chain[g] = chainPre[g]
    /\ chainCall.name = "with_all" =>
           /\ chain[chainCall.f] = Some(EdgesAll(chainCall.v))
           /\ \A g \in StyleFieldNames \ {chainCall.f} :
                  chain[g] = chainPre[g]
    /\ \A g \in StyleFieldNames \ chainSet : chain[g] = None

\* Style::new().with_height(..).with_width(..): the second call left
\* height alone, and the twenty other fields are absent.
C24_Witness ==
    /\ chainCall.name = "with"
    /\ chainCall.f = "width"
    /\ chainCall.v = UnitFULL
    /\ chainSet = {"width", "height"}
    /\ chain.height = Some(Cells(24))
    /\ chain.width = Some(UnitFULL)

\* Style::new().with_padding_all(Cells(2)).with_margin_all(Auto)
C24_WitnessAll ==
    /\ chainCall.name = "with_all"
    /\ chainCall.f = "margin"
    /\ chainCall.v = Auto
    /\ chain.padding = Some(EdgesAll(Cells(2)))
    /\ chain.margin = Some(EdgesAll(Auto))

(* ------------------------------------------------------------------ *)
(* Merge as an operation on styles                                      *)
(* ------------------------------------------------------------------ *)

\* C26: merge is associative, A.merged_with(B).merged_with(C) equals
\* A.merged_with(B.merged_with(C)), and the empty Style is its identity on
\* both sides.
C26_MergeAssociative ==
    assocOut.outcome = "returned" =>
        LET out == assocOut.value IN
        /\ out.left = out.right
        /\ out.onto_empty = assocA
        /\ out.with_empty = assocA

\* Three styles that declare the same two fields with different values;
\* both groupings end with the values of the third.
C26_Witness ==
    /\ assocOut.outcome = "returned"
    /\ assocFields = {"padding", "margin"}
    /\ assocA.padding = Some(EdgesAll(Cells(2))) /\ assocA.margin = None
    /\ assocB.padding = Some(EdgesDefault)
    /\ assocB.margin = Some(EdgesAll(Auto))
    /\ assocC.padding = None /\ assocC.margin = Some(EdgesAll(UnitZERO))
    /\ assocOut.value.left.padding = Some(EdgesDefault)
    /\ assocOut.value.left.margin = Some(EdgesAll(UnitZERO))
    /\ assocOut.value.right = assocOut.value.left

\* The fields of Style that hold a value with parts.
CompoundFieldNames == {"padding", "margin", "border"}

\* The parts of the value of a compound field.
PartsOf(f) == IF f = "border" THEN {"style", "color"} ELSE Sides

\* C27: merge replaces compound values whole and never merges inside them:
\* when the overlay declares padding or margin, the merged value equals the
\* overlay's on all four sides, even on sides that are Unit::Unset in the
\* overlay and set in the base; when the overlay declares a border, the
\* merged border equals the overlay's, a colour of None included.
C27_CompoundReplacedWhole ==
    \A f \in CompoundFieldNames :
        is_some(overlay[f]) =>
            /\ op = "merge" =>
                   /\ base[f] = overlay[f]
                   /\ \A p \in PartsOf(f) :
                          unwrap(base[f])[p] = unwrap(overlay[f])[p]
            /\ op = "merged_with" =>
                   /\ unwrap(merged)[f] = overlay[f]
                   /\ \A p \in PartsOf(f) :
                          unwrap(unwrap(merged)[f])[p] = unwrap(overlay[f])[p]

\* A base with padding set on every side was merged with an overlay whose
\* right and left are Unset: the merged right and left are Unset.
C27_Witness ==
    /\ op = "merge"
    /\ pre.padding = Some(EdgesAll(Cells(2)))
    /\ overlay.padding = Some(Edges(Cells(1), Unset, Cells(1), Unset))
    /\ unwrap(base.padding).right = Unset
    /\ unwrap(base.padding).left = Unset

\* A base with a coloured border was merged with an overlay whose border
\* has no colour: the merged border has none.
C27_WitnessBorder ==
    /\ op = "merge"
    /\ pre.border = Some(border_with_color(BorderROUNDED, Named("Cyan")))
    /\ overlay.border = Some(BorderNONE)
    /\ unwrap(base.border).color = None

(* ------------------------------------------------------------------ *)
(* Rendering an Int and parsing it back                                 *)
(* ------------------------------------------------------------------ *)

\* C28: decimal round trip: for every 32-bit signed value n, from i32::MIN
\* to i32::MAX, parsing the Display rendering of Int(n) with Int::from_str
\* returns Int(n).
C28_DecimalRoundTrip ==
    (rtFmt = "display" /\ rtOut # NotCalled) => rtOut = Returned(Ok(rtN))

\* The prefix each helper puts before the digits.
CanonicalPrefix ==
    [to_bin |-> <<"0", "b">>, to_oct |-> <<"0", "o">>, to_hex |-> <<"0", "x">>]

\* C29: prefixed round trip: for every Int n, negative n included, the
\* strings of to_bin, to_oct and to_hex carry the prefix 0b, 0o or 0x, and
\* Int::from_str parses them back to n.
C29_PrefixedRoundTrip ==
    rtFmt \in DOMAIN CanonicalPrefix =>
        /\ SubSeq(unwrap(rtText), 1, 2) = CanonicalPrefix[rtFmt]
        /\ rtOut # NotCalled => rtOut = Returned(Ok(rtN))

(* ------------------------------------------------------------------ *)
(* ci-impact                                                            *)
(* ------------------------------------------------------------------ *)

RECURSIVE DependsWithin(_, _, _)
\* Package p depends on q through at most n dependency edges.
DependsWithin(p, q, n) ==
    \/ p = q
    \/ /\ n > 0
       /\ \E r \in Packages : <<p, r>> \in impGraph /\ DependsWithin(r, q, n - 1)

\* The changed known packages: those name_to_id holds for a changed name.
ChangedKnown == {name_to_id[n] : n \in changed \cap DOMAIN name_to_id}

\* The changed names, and the name of every package that transitively
\* depends on a changed known package.
ImpactClosure ==
    changed \cup
        {impNames[p] : p \in {d \in Packages :
                                 \E q \in ChangedKnown :
                                     DependsWithin(d, q, Len(impNames))}}

\* The printed list is in ascending order without duplicates, and lists
\* the impacted names.
PrintedAscending ==
    LET list == unwrap(impPrinted)
    IN  /\ \A i, j \in DOMAIN list : i < j => name_lt(list[i], list[j])
        /\ {list[i] : i \in DOMAIN list} = impacted

ImpactResult ==
    /\ \A n \in NameSet : impInserts[n] <= 1
    /\ impPc = "done" =>
           /\ impacted = ImpactClosure
           /\ \A n \in NameSet : impInserts[n] = 1 <=> n \in impacted
           /\ is_some(impPrinted)
           /\ PrintedAscending

=============================================================================
